---- MODULE Spec2Model ----
(***************************************************************************)
(* Verification model of mcp-code-runner.                                  *)
(*                                                                         *)
(*  ExecSpec : Executor.Execute (internal/runner executor), one ephemeral  *)
(*             container per invocation, with the daemon, the caller's     *)
(*             context, the timeout and the writer/reader goroutines as    *)
(*             interleaved steps.                                          *)
(*  ExecLiveSpec : ExecSpec with weak fairness of Execute's own steps and  *)
(*             of the timer of execCtx.                                    *)
(*  RunSpec  : MCPHandler.Handle / handleToolCall / handleRunCode around   *)
(*             Execute: validation, runner lookup, sandbox, arguments.     *)
(*  FileSpec : the file surface: MCPHandler.handleUploadFile,              *)
(*             Manager.WriteFile / EnsureSandboxDir / ListFiles and        *)
(*             Server.handleFileDownload over a small filesystem.          *)
(*  McpSpec  : the /mcp endpoint: auth.Middleware, Server.handleMCP,      *)
(*             MCPHandler.Handle with every tool, Execute seen from        *)
(*             outside as user code and an outcome.                        *)
(***************************************************************************)
EXTENDS Integers, Sequences, FiniteSets, TLC

VARIABLES
    \* ---- Executor.Execute ----
    pc,             \* position of Execute
    callerDone,     \* ctx (the caller's context) has been cancelled
    deadlineFired,  \* execCtx's own timer (e.timeout) has elapsed
    execCancelled,  \* the deferred cancel() of execCtx has run
    container,      \* daemon-side state of the container
    exitStatus,     \* status code the container exited with, NoExit before
    waitResp,       \* what ContainerWait's channels hold: statusCh / errCh
    writer,         \* the stdin writer goroutine
    attachOpen,     \* attachResp is open (reader can still copy)
    pipeOut,        \* stdout chunks emitted by the container, not yet copied
    pipeErr,        \* stderr chunks emitted by the container, not yet copied
    emitted,        \* chunks the container has emitted so far
    stdoutBuf,      \* stdoutBuf: chunks demultiplexed so far
    stderrBuf,      \* stderrBuf: chunks demultiplexed so far
    exitCode,       \* local exitCode
    timedOut,       \* local timedOut
    result,         \* the ExecutionResult handed to the caller
    removeCalls,    \* ContainerRemove requests issued
    removeOutcome,  \* how the ContainerRemove request ended
    daemonRemove,   \* how the daemon treated the remove request
    firedRunning,   \* history: execCtx's deadline fired while the waiter was
                    \* selecting and the container was running
    cancelledAt,    \* history: position of Execute when ctx was cancelled
    \* ---- file surface ----
    fs,             \* the server's filesystem: cleaned absolute path -> entry
    resp,           \* the HTTP / tool response in flight, NoResp when none
    lastUpload,     \* arguments and result of the last successful
                    \* upload_file, NoUpload once anything else is written
    writes,         \* filesystem-changing operations so far
    \* ---- MCP dispatcher ----
    registry,       \* Registry.runnersByLanguage: language -> RunnerInfo
    discovery,      \* the images ImageList returned at startup, and whether
                    \* NewRegistry has built the catalog from them
    ensure,         \* concurrent callers of EnsureSandboxDir, <<>> when none
    request,        \* the JSON-RPC request being handled, NoRequest when none
    call,           \* the arguments handleRunCode passed to Execute
    rpc,            \* the JSON-RPC response, NoRpc while none is written
    listed          \* history: the result of the first tools/list call

execVars == <<pc, callerDone, deadlineFired, execCancelled, container,
              exitStatus, waitResp, writer, attachOpen, pipeOut, pipeErr,
              emitted, stdoutBuf, stderrBuf, exitCode, timedOut, result,
              removeCalls, removeOutcome, daemonRemove, firedRunning,
              cancelledAt>>

fileVars == <<fs, resp, lastUpload, writes>>

runVars == <<registry, discovery, ensure, request, call, rpc, listed>>

vars == <<execVars, fileVars, runVars>>

----------------------------------------------------------------------------
(* Bounds *)

\* chunks of output a container emits in one run
MaxChunks == 1

\* length of the longest uploaded byte string
MaxBytes == 2

\* filesystem-changing operations (uploads, runner writes) in one behaviour
MaxWrites == 2

\* images the daemon lists at startup
MaxImages == 3

----------------------------------------------------------------------------
(* Executor.Execute *)

NoExit == -2

\* ExecutionResult zero value; Stderr is a notice, a newline after it (nl)
\* and captured text
ZeroResult ==
    [Success |-> FALSE, Stdout |-> 0,
     Stderr |-> [notice |-> "none", nl |-> FALSE, text |-> 0],
     ExitCode |-> 0, TimedOut |-> FALSE, Error |-> "nil"]

\* context.Context trees: ctx is the caller's; execCtx is
\* context.WithTimeout(ctx, e.timeout); Background is never done.

\* parent of removeCtx: context.WithTimeout(context.Background(), 5s)
RemoveCtxParentFromCaller == "caller"

RemoveCtxParent == "Background"

RECURSIVE CtxDone(_)
CtxDone(c) ==
    CASE c = "Background" -> FALSE
      [] c = "caller"     -> callerDone
      [] c = "exec"       -> deadlineFired \/ execCancelled \/ CtxDone("caller")

\* success := exitCode == 0 && !timedOut
SuccessIgnoringExitCode(code, to) == ~to

SuccessOf(code, to) == code = 0 /\ ~to

\* the ExecutionResult literal of the create / attach / start failure returns
FailureResult(stage, err) ==
    [ZeroResult EXCEPT !.Stderr = [notice |-> stage, nl |-> FALSE, text |-> 0],
                       !.Error = err]

\* error a daemon call made under execCtx fails with
CallError == IF CtxDone("exec") THEN "ctx" ELSE "daemon"

ExecStart ==
    /\ pc = "begin"
    /\ callerDone = FALSE
    /\ deadlineFired = FALSE
    /\ execCancelled = FALSE
    /\ container = "none"
    /\ exitStatus = NoExit
    /\ waitResp = "none"
    /\ writer = "none"
    /\ attachOpen = FALSE
    /\ pipeOut = 0
    /\ pipeErr = 0
    /\ emitted = 0
    /\ stdoutBuf = 0
    /\ stderrBuf = 0
    /\ exitCode = 0
    /\ timedOut = FALSE
    /\ result = ZeroResult
    /\ removeCalls = 0
    /\ removeOutcome = "none"
    /\ daemonRemove = "none"
    /\ firedRunning = FALSE
    /\ cancelledAt = "never"

\* the moment execCtx becomes done counts as "while running" when the waiter
\* is in its select, the container runs and nothing was delivered yet
FiresWhileRunning ==
    /\ ~CtxDone("exec")
    /\ pc = "select"
    /\ container = "running"
    /\ waitResp = "pending"

\* the caller cancels ctx (client disconnect), at any moment of the call
CallerCancel ==
    /\ pc # "returned"
    /\ ~callerDone
    /\ callerDone' = TRUE
    /\ cancelledAt' = pc
    /\ UNCHANGED <<pc, firedRunning, deadlineFired, execCancelled, container, exitStatus,
                   waitResp, writer, attachOpen, pipeOut, pipeErr, emitted,
                   stdoutBuf, stderrBuf, exitCode, timedOut, result,
                   removeCalls, removeOutcome, daemonRemove>>

\* e.timeout elapses on execCtx
DeadlineFire ==
    /\ pc \notin {"begin", "returned"}
    /\ ~execCancelled
    /\ ~deadlineFired
    /\ deadlineFired' = TRUE
    /\ firedRunning' = (firedRunning \/ FiresWhileRunning)
    /\ UNCHANGED <<pc, callerDone, execCancelled, container, exitStatus,
                   waitResp, writer, attachOpen, pipeOut, pipeErr, emitted,
                   stdoutBuf, stderrBuf, exitCode, timedOut, result,
                   removeCalls, removeOutcome, daemonRemove, cancelledAt>>

\* execCtx, cancel := context.WithTimeout(ctx, e.timeout); envVars; configs
Begin ==
    /\ pc = "begin"
    /\ pc' = "create"
    /\ UNCHANGED <<callerDone, deadlineFired, execCancelled, container,
                   exitStatus, waitResp, writer, attachOpen, pipeOut, pipeErr,
                   emitted, stdoutBuf, stderrBuf, exitCode, timedOut, result,
                   removeCalls, removeOutcome, daemonRemove, firedRunning, cancelledAt>>

\* the defers pending when the create-failure return runs: cancel only (the
\* remove func is registered after a successful create)
CreateFailureUnwindRemove == "deferRemove"

CreateFailureUnwind == "deferCancel"

\* resp, err := e.cli.ContainerCreate(execCtx, ...)
ContainerCreate ==
    /\ pc = "create"
    /\ \E ok \in BOOLEAN :
         IF ok /\ ~CtxDone("exec")
         THEN /\ container' = "created"
              /\ pc' = "attach"
              /\ UNCHANGED result
         ELSE /\ result' = FailureResult("create", CallError)
              /\ pc' = CreateFailureUnwind
              /\ UNCHANGED container
    /\ UNCHANGED <<callerDone, deadlineFired, execCancelled, exitStatus,
                   waitResp, writer, attachOpen, pipeOut, pipeErr, emitted,
                   stdoutBuf, stderrBuf, exitCode, timedOut, removeCalls,
                   removeOutcome, daemonRemove, firedRunning, cancelledAt>>

\* the defers pending when the attach-failure return runs: the remove func
\* (registered right after create) and cancel
AttachFailureUnwindNoRemove == "deferCancel"

AttachFailureUnwind == "deferRemove"

\* attachResp, err := e.cli.ContainerAttach(execCtx, containerID, ...)
ContainerAttach ==
    /\ pc = "attach"
    /\ \E ok \in BOOLEAN :
         IF ok /\ ~CtxDone("exec")
         THEN /\ attachOpen' = TRUE
              /\ pc' = "start"
              /\ UNCHANGED result
         ELSE /\ result' = FailureResult("attach", CallError)
              /\ pc' = AttachFailureUnwind
              /\ UNCHANGED attachOpen
    /\ UNCHANGED <<callerDone, deadlineFired, execCancelled, container,
                   exitStatus, waitResp, writer, pipeOut, pipeErr, emitted,
                   stdoutBuf, stderrBuf, exitCode, timedOut, removeCalls,
                   removeOutcome, daemonRemove, firedRunning, cancelledAt>>

\* e.cli.ContainerStart(execCtx, containerID, ...)
ContainerStart ==
    /\ pc = "start"
    /\ \E ok \in BOOLEAN :
         IF ok /\ ~CtxDone("exec")
         THEN /\ container' = "running"
              /\ pc' = "spawn"
              /\ UNCHANGED result
         ELSE /\ result' = FailureResult("start", CallError)
              /\ pc' = "deferClose"
              /\ UNCHANGED container
    /\ UNCHANGED <<callerDone, deadlineFired, execCancelled, exitStatus,
                   waitResp, writer, attachOpen, pipeOut, pipeErr, emitted,
                   stdoutBuf, stderrBuf, exitCode, timedOut, removeCalls,
                   removeOutcome, daemonRemove, firedRunning, cancelledAt>>

\* go writer; go stdcopy.StdCopy; statusCh, errCh := e.cli.ContainerWait(...)
Spawn ==
    /\ pc = "spawn"
    /\ writer' = "writing"
    /\ waitResp' = IF container = "exited" THEN "status" ELSE "pending"
    /\ pc' = "select"
    /\ UNCHANGED <<callerDone, deadlineFired, execCancelled, container,
                   exitStatus, attachOpen, pipeOut, pipeErr, emitted,
                   stdoutBuf, stderrBuf, exitCode, timedOut, result,
                   removeCalls, removeOutcome, daemonRemove, firedRunning, cancelledAt>>

\* io.WriteString(attachResp.Conn, code); attachResp.CloseWrite()
\* (errors, such as a broken pipe after the container exited, are dropped)
WriterRun ==
    /\ writer = "writing"
    /\ writer' = IF container = "running" /\ attachOpen THEN "closed" ELSE "broken"
    /\ UNCHANGED <<pc, callerDone, deadlineFired, execCancelled, container,
                   exitStatus, waitResp, attachOpen, pipeOut, pipeErr, emitted,
                   stdoutBuf, stderrBuf, exitCode, timedOut, result,
                   removeCalls, removeOutcome, daemonRemove, firedRunning, cancelledAt>>

\* the runner writes a chunk to its stdout or stderr
ContainerEmit ==
    /\ container = "running"
    /\ emitted < MaxChunks
    /\ emitted' = emitted + 1
    /\ \/ pipeOut' = pipeOut + 1 /\ UNCHANGED pipeErr
       \/ pipeErr' = pipeErr + 1 /\ UNCHANGED pipeOut
    /\ UNCHANGED <<pc, callerDone, deadlineFired, execCancelled, container,
                   exitStatus, waitResp, writer, attachOpen, stdoutBuf,
                   stderrBuf, exitCode, timedOut, result, removeCalls,
                   removeOutcome, daemonRemove, firedRunning, cancelledAt>>

\* stdcopy.StdCopy(&stdoutBuf, &stderrBuf, attachResp.Reader): one frame
ReaderCopy ==
    /\ writer # "none"
    /\ attachOpen
    /\ \/ /\ pipeOut > 0
          /\ pipeOut' = pipeOut - 1
          /\ stdoutBuf' = stdoutBuf + 1
          /\ UNCHANGED <<pipeErr, stderrBuf>>
       \/ /\ pipeErr > 0
          /\ pipeErr' = pipeErr - 1
          /\ stderrBuf' = stderrBuf + 1
          /\ UNCHANGED <<pipeOut, stdoutBuf>>
    /\ UNCHANGED <<pc, callerDone, deadlineFired, execCancelled, container,
                   exitStatus, waitResp, writer, attachOpen, emitted, exitCode,
                   timedOut, result, removeCalls, removeOutcome, daemonRemove, firedRunning,
                   cancelledAt>>

\* the container's process ends; a pending wait request is answered on statusCh
ContainerExit ==
    /\ container = "running"
    /\ \E code \in {0, 1} : exitStatus' = code
    /\ container' = "exited"
    /\ waitResp' = IF waitResp = "pending" THEN "status" ELSE waitResp
    /\ UNCHANGED <<pc, callerDone, deadlineFired, execCancelled, writer,
                   attachOpen, pipeOut, pipeErr, emitted, stdoutBuf, stderrBuf,
                   exitCode, timedOut, result, removeCalls, removeOutcome, daemonRemove,
                   firedRunning, cancelledAt>>

\* the wait request fails (connection lost, or execCtx done): errCh <- err
WaitError ==
    /\ pc = "select"
    /\ waitResp = "pending"
    /\ waitResp' = IF CtxDone("exec") THEN "errCtx" ELSE "errDaemon"
    /\ UNCHANGED <<pc, callerDone, deadlineFired, execCancelled, container,
                   exitStatus, writer, attachOpen, pipeOut, pipeErr, emitted,
                   stdoutBuf, stderrBuf, exitCode, timedOut, result,
                   removeCalls, removeOutcome, daemonRemove, firedRunning, cancelledAt>>

\* the ExecutionResult literal of the wait-error return: Stdout is
\* stdoutBuf.String(), Stderr is "Container wait error: <err>\n" followed by
\* stderrBuf.String()
WaitErrorResultDroppingOutput(err) ==
    [ZeroResult EXCEPT !.Stderr = [notice |-> "wait", nl |-> TRUE, text |-> 0],
                       !.Error = err]

WaitErrorResult(err) ==
    [ZeroResult EXCEPT
        !.Stdout = stdoutBuf,
        !.Stderr = [notice |-> "wait", nl |-> TRUE, text |-> stderrBuf],
        !.Error = err]

\* case err := <-errCh: return the wait-error result
SelectErr ==
    /\ pc = "select"
    /\ waitResp \in {"errCtx", "errDaemon"}
    /\ result' = WaitErrorResult(IF waitResp = "errCtx" THEN "ctx" ELSE "daemon")
    /\ pc' = "deferClose"
    /\ UNCHANGED <<callerDone, deadlineFired, execCancelled, container,
                   exitStatus, waitResp, writer, attachOpen, pipeOut, pipeErr,
                   emitted, stdoutBuf, stderrBuf, exitCode, timedOut,
                   removeCalls, removeOutcome, daemonRemove, firedRunning, cancelledAt>>

\* case status := <-statusCh: exitCode = status.StatusCode
SelectStatus ==
    /\ pc = "select"
    /\ waitResp = "status"
    /\ exitCode' = exitStatus
    /\ pc' = "drain"
    /\ UNCHANGED <<callerDone, deadlineFired, execCancelled, container,
                   exitStatus, waitResp, writer, attachOpen, pipeOut, pipeErr,
                   emitted, stdoutBuf, stderrBuf, timedOut, result,
                   removeCalls, removeOutcome, daemonRemove, firedRunning, cancelledAt>>

\* case <-execCtx.Done(): timedOut = true; exitCode = -1
SelectCtxDoneNever ==
    /\ FALSE
    /\ UNCHANGED vars

SelectCtxDone ==
    /\ pc = "select"
    /\ CtxDone("exec")
    /\ timedOut' = TRUE
    /\ exitCode' = -1
    /\ pc' = "drain"
    /\ UNCHANGED <<callerDone, deadlineFired, execCancelled, container,
                   exitStatus, waitResp, writer, attachOpen, pipeOut, pipeErr,
                   emitted, stdoutBuf, stderrBuf, result, removeCalls,
                   removeOutcome, daemonRemove, firedRunning, cancelledAt>>

\* time.Sleep(100 * time.Millisecond)
Drain ==
    /\ pc = "drain"
    /\ pc' = "report"
    /\ UNCHANGED <<callerDone, deadlineFired, execCancelled, container,
                   exitStatus, waitResp, writer, attachOpen, pipeOut, pipeErr,
                   emitted, stdoutBuf, stderrBuf, exitCode, timedOut, result,
                   removeCalls, removeOutcome, daemonRemove, firedRunning, cancelledAt>>

\* read the buffers, prefix the timeout notice (with "\n" when stderr is not
\* empty), build the result
ReportNoticeThenNewline ==
    /\ pc = "report"
    /\ result' = [Success  |-> SuccessOf(exitCode, timedOut),
                  Stdout   |-> stdoutBuf,
                  Stderr   |-> [notice |-> IF timedOut THEN "timeout" ELSE "none",
                                nl     |-> timedOut,
                                text   |-> stderrBuf],
                  ExitCode |-> exitCode,
                  TimedOut |-> timedOut,
                  Error    |-> "nil"]
    /\ pc' = "deferClose"
    /\ UNCHANGED <<callerDone, deadlineFired, execCancelled, container,
                   exitStatus, waitResp, writer, attachOpen, pipeOut, pipeErr,
                   emitted, stdoutBuf, stderrBuf, exitCode, timedOut,
                   removeCalls, removeOutcome, daemonRemove, firedRunning, cancelledAt>>

Report ==
    /\ pc = "report"
    /\ result' = [Success  |-> SuccessOf(exitCode, timedOut),
                  Stdout   |-> stdoutBuf,
                  Stderr   |-> [notice |-> IF timedOut THEN "timeout" ELSE "none",
                                nl     |-> timedOut /\ stderrBuf # 0,
                                text   |-> stderrBuf],
                  ExitCode |-> exitCode,
                  TimedOut |-> timedOut,
                  Error    |-> "nil"]
    /\ pc' = "deferClose"
    /\ UNCHANGED <<callerDone, deadlineFired, execCancelled, container,
                   exitStatus, waitResp, writer, attachOpen, pipeOut, pipeErr,
                   emitted, stdoutBuf, stderrBuf, exitCode, timedOut,
                   removeCalls, removeOutcome, daemonRemove, firedRunning, cancelledAt>>

\* defer attachResp.Close()
DeferClose ==
    /\ pc = "deferClose"
    /\ attachOpen' = FALSE
    /\ pc' = "deferRemove"
    /\ UNCHANGED <<callerDone, deadlineFired, execCancelled, container,
                   exitStatus, waitResp, writer, pipeOut, pipeErr, emitted,
                   stdoutBuf, stderrBuf, exitCode, timedOut, result,
                   removeCalls, removeOutcome, daemonRemove, firedRunning, cancelledAt>>

\* container.RemoveOptions{Force: true}
RemoveForceOff == FALSE

RemoveForce == TRUE

\* how ContainerRemove(removeCtx, containerID, {Force}) ends when the daemon
\* behaves as b: nothing is sent when removeCtx is already done; a slow daemon
\* runs into removeCtx's 5 s deadline; a running container is removed only
\* with Force
RemoveResult(b) ==
    IF CtxDone(RemoveCtxParent) THEN "cancelled"
    ELSE IF b = "slow" THEN "deadline"
    ELSE IF b = "error" THEN "error"
    ELSE IF container = "running" /\ ~RemoveForce THEN "error"
    ELSE "removed"

\* the deferred func: removeCtx from Background with 5 s; ContainerRemove
\* with Force; the returned error is dropped
DeferRemove ==
    /\ pc = "deferRemove"
    /\ removeCalls' = removeCalls + 1
    /\ \E b \in {"ok", "error", "slow"} :
         /\ daemonRemove' = b
         /\ removeOutcome' = RemoveResult(b)
         /\ container' = IF RemoveResult(b) = "removed" THEN "removed" ELSE container
    /\ pc' = "deferCancel"
    /\ UNCHANGED <<callerDone, deadlineFired, execCancelled, exitStatus,
                   waitResp, writer, attachOpen, pipeOut, pipeErr, emitted,
                   stdoutBuf, stderrBuf, exitCode, timedOut, result,
                   firedRunning, cancelledAt>>

\* defer cancel(); Execute returns result to its caller
DeferCancel ==
    /\ pc = "deferCancel"
    /\ execCancelled' = TRUE
    /\ pc' = "returned"
    /\ UNCHANGED <<callerDone, deadlineFired, container, exitStatus, waitResp,
                   writer, attachOpen, pipeOut, pipeErr, emitted, stdoutBuf,
                   stderrBuf, exitCode, timedOut, result, removeCalls,
                   removeOutcome, daemonRemove, firedRunning, cancelledAt>>

ExecStep ==
    \/ CallerCancel
    \/ DeadlineFire
    \/ Begin
    \/ ContainerCreate
    \/ ContainerAttach
    \/ ContainerStart
    \/ Spawn
    \/ WriterRun
    \/ ContainerEmit
    \/ ReaderCopy
    \/ ContainerExit
    \/ WaitError
    \/ SelectErr
    \/ SelectStatus
    \/ SelectCtxDone
    \/ Drain
    \/ Report
    \/ DeferClose
    \/ DeferRemove
    \/ DeferCancel

----------------------------------------------------------------------------
(* Strings are sequences of one-character strings; byte strings are        *)
(* sequences of numbers 0..255.                                            *)

\* strings.HasPrefix
HasPrefix(s, p) == Len(s) >= Len(p) /\ SubSeq(s, 1, Len(p)) = p

\* strings.HasSuffix
HasSuffix(s, p) == Len(s) >= Len(p) /\ SubSeq(s, Len(s) - Len(p) + 1, Len(s)) = p

\* strings.TrimPrefix
TrimPrefix(s, p) == IF HasPrefix(s, p) THEN SubSeq(s, Len(p) + 1, Len(s)) ELSE s

\* strings.Index for a one-character separator; 0 when absent
Index(s, ch) ==
    LET at == {i \in 1..Len(s) : s[i] = ch}
    IN  IF at = {} THEN 0 ELSE CHOOSE i \in at : \A j \in at : i <= j

\* strings.SplitN(s, "/", 2)
SplitN2(s) ==
    LET i == Index(s, "/")
    IN  IF i = 0 THEN <<s>> ELSE <<SubSeq(s, 1, i - 1), SubSeq(s, i + 1, Len(s))>>

\* strings.Split(s, "/")
RECURSIVE Split(_)
Split(s) ==
    LET i == Index(s, "/")
    IN  IF i = 0 THEN <<s>>
        ELSE <<SubSeq(s, 1, i - 1)>> \o Split(SubSeq(s, i + 1, Len(s)))

\* strings.Join(cs, "/")
RECURSIVE JoinSlash(_)
JoinSlash(cs) ==
    IF cs = <<>> THEN <<>>
    ELSE IF Len(cs) = 1 THEN cs[1]
    ELSE cs[1] \o <<"/">> \o JoinSlash(Tail(cs))

Dot == <<".">>

DotDot == <<".", ".">>

\* the element stack filepath.Clean builds: empty and "." elements are
\* dropped, ".." removes the element before it, is dropped at the root of a
\* rooted path and is kept at the front of a relative one
RECURSIVE CleanStack(_, _, _)
CleanStack(cs, stack, rooted) ==
    IF cs = <<>> THEN stack
    ELSE LET c == Head(cs)
             rest == Tail(cs)
         IN  IF c = <<>> \/ c = Dot THEN CleanStack(rest, stack, rooted)
             ELSE IF c = DotDot
                  THEN IF stack # <<>> /\ stack[Len(stack)] # DotDot
                       THEN CleanStack(rest, SubSeq(stack, 1, Len(stack) - 1), rooted)
                       ELSE IF rooted THEN CleanStack(rest, stack, rooted)
                       ELSE CleanStack(rest, Append(stack, c), rooted)
                  ELSE CleanStack(rest, Append(stack, c), rooted)

\* filepath.Clean
Clean(p) ==
    IF p = <<>> THEN Dot
    ELSE LET rooted == p[1] = "/"
             body == JoinSlash(CleanStack(Split(p), <<>>, rooted))
         IN  IF rooted THEN <<"/">> \o body
             ELSE IF body = <<>> THEN Dot ELSE body

\* filepath.Join: empty elements are ignored, the result is cleaned
Join(elems) ==
    LET ne == SelectSeq(elems, LAMBDA e : e # <<>>)
    IN  IF ne = <<>> THEN <<>> ELSE Clean(JoinSlash(ne))

\* n copies of ch
Rep(ch, n) == [i \in 1..n |-> ch]

HexDigits == <<"0", "1", "2", "3", "4", "5", "6", "7",
               "8", "9", "a", "b", "c", "d", "e", "f">>

\* base64.StdEncoding's alphabet
B64Chars ==
    <<"A", "B", "C", "D", "E", "F", "G", "H", "I", "J", "K", "L", "M",
      "N", "O", "P", "Q", "R", "S", "T", "U", "V", "W", "X", "Y", "Z",
      "a", "b", "c", "d", "e", "f", "g", "h", "i", "j", "k", "l", "m",
      "n", "o", "p", "q", "r", "s", "t", "u", "v", "w", "x", "y", "z",
      "0", "1", "2", "3", "4", "5", "6", "7", "8", "9", "+", "/">>

\* base64.StdEncoding.EncodeToString (what a client sends as content)
RECURSIVE B64Encode(_)
B64Encode(b) ==
    IF Len(b) = 0 THEN <<>>
    ELSE IF Len(b) = 1
    THEN <<B64Chars[(b[1] \div 4) + 1], B64Chars[((b[1] % 4) * 16) + 1], "=", "=">>
    ELSE IF Len(b) = 2
    THEN LET v == b[1] * 256 + b[2]
         IN  <<B64Chars[(v \div 1024) + 1], B64Chars[((v \div 16) % 64) + 1],
               B64Chars[((v % 16) * 4) + 1], "=">>
    ELSE LET v == b[1] * 65536 + b[2] * 256 + b[3]
         IN  <<B64Chars[(v \div 262144) + 1], B64Chars[((v \div 4096) % 64) + 1],
               B64Chars[((v \div 64) % 64) + 1], B64Chars[(v % 64) + 1]>>
             \o B64Encode(SubSeq(b, 4, Len(b)))

\* value of a base-64 digit, -1 for any other character
B64Value(ch) ==
    IF \E i \in 1..64 : B64Chars[i] = ch
    THEN (CHOOSE i \in 1..64 : B64Chars[i] = ch) - 1
    ELSE -1

\* base64.StdEncoding.DecodeString: [ok, bytes]; the input is a whole number
\* of 4-character groups, padding only at the end of the last group
RECURSIVE B64Decode(_)
B64Decode(s) ==
    IF Len(s) = 0 THEN [ok |-> TRUE, bytes |-> <<>>]
    ELSE IF Len(s) < 4 THEN [ok |-> FALSE, bytes |-> <<>>]
    ELSE LET v1 == B64Value(s[1])
             v2 == B64Value(s[2])
             v3 == B64Value(s[3])
             v4 == B64Value(s[4])
             last == Len(s) = 4
             bad == [ok |-> FALSE, bytes |-> <<>>]
         IN  IF v1 < 0 \/ v2 < 0 THEN bad
             ELSE IF s[3] = "=" /\ s[4] = "="
                  THEN IF last
                       THEN [ok |-> TRUE, bytes |-> <<v1 * 4 + (v2 \div 16)>>]
                       ELSE bad
             ELSE IF v3 < 0 THEN bad
             ELSE IF s[4] = "="
                  THEN IF last
                       THEN LET v == v1 * 4096 + v2 * 64 + v3
                            IN  [ok |-> TRUE,
                                 bytes |-> <<v \div 1024, (v \div 4) % 256>>]
                       ELSE bad
             ELSE IF v4 < 0 THEN bad
             ELSE LET v == v1 * 262144 + v2 * 4096 + v3 * 64 + v4
                      rest == B64Decode(SubSeq(s, 5, Len(s)))
                  IN  IF rest.ok
                      THEN [ok |-> TRUE,
                            bytes |-> <<v \div 65536, (v \div 256) % 256, v % 256>>
                                      \o rest.bytes]
                      ELSE bad

----------------------------------------------------------------------------
(* Configuration and the sandbox Manager *)

\* SANDBOX_ROOT
SandboxRoot == <<"/", "r">>

\* FILE_SECRET
FileSecret == <<"k", "9">>

\* PUBLIC_BASE_URL, as Signer.GetBaseURL returns it
BaseURL == <<"h", "t", "t", "p", ":", "/", "/", "h">>

\* conversation ids clients use
Conv1 == <<"s", "1">>

Conv2 == <<"s", "2">>

ConvIDs == {Conv1, Conv2}

\* length of hex.EncodeToString of a SHA-256 sum
HashLen == 64

\* byte value of a character of a conversation id or of the secret
Code(ch) ==
    CASE ch = "s" -> 115
      [] ch = "k" -> 107
      [] ch = "1" -> 49
      [] ch = "2" -> 50
      [] OTHER    -> 63

\* h.Write(bytes): the digest state after absorbing bytes
RECURSIVE Absorb(_, _)
Absorb(bytes, acc) ==
    IF bytes = <<>> THEN acc
    ELSE Absorb(Tail(bytes), (acc * 31 + Code(Head(bytes))) % 65521)

\* hashConversationID: hex digest of conversationID followed by the secret.
\* SHA-256 itself is replaced by a small mixing function with the same
\* shape: HashLen lowercase hex digits, a function of the bytes absorbed,
\* distinct on ConvIDs.
Digest(c) ==
    LET d == Absorb(FileSecret, Absorb(c, 7))
    IN  [i \in 1..HashLen |-> HexDigits[((d * i + (d \div i)) % 16) + 1]]

\* the digests of the conversation ids in use, computed once
DigestTable == [c \in ConvIDs |-> Digest(c)]

hashConversationID(c) == IF c \in ConvIDs THEN DigestTable[c] ELSE Digest(c)

DirEntry == [kind |-> "dir", data |-> <<>>]

FileEntry(bytes) == [kind |-> "file", data |-> bytes]

\* the directories above a cleaned absolute path: its prefixes that end
\* before a separator, and the root
Ancestors(p) ==
    {IF i = 1 THEN <<"/">> ELSE SubSeq(p, 1, i - 1) :
        i \in {j \in 1..Len(p) : p[j] = "/" /\ Len(p) > 1}}

\* filepath.Dir of a cleaned absolute path
Dir(p) == Clean(p \o <<"/", ".", ".">>)

\* filepath.Base of a cleaned absolute path other than "/"
Base(p) ==
    LET at == {j \in 1..Len(p) : p[j] = "/"}
    IN  SubSeq(p, (CHOOSE i \in at : \A j \in at : j <= i) + 1, Len(p))

\* os.Stat: "dir" or "file", or the error
Stat(fsys, p) ==
    IF p \in DOMAIN fsys
    THEN IF fsys[p].kind = "symlink" THEN "ELOOP" ELSE fsys[p].kind
    ELSE IF \E a \in Ancestors(p) : a \in DOMAIN fsys /\ fsys[a].kind = "symlink"
    THEN "ELOOP"
    ELSE IF \E a \in Ancestors(p) : a \in DOMAIN fsys /\ fsys[a].kind = "file"
    THEN "ENOTDIR"
    ELSE "ENOENT"

\* os.MkdirAll: the directory and its missing parents are made; an existing
\* directory is left as it is
MkdirExclusive(fsys, p) ==
    IF p \in DOMAIN fsys THEN [err |-> "EEXIST", fs |-> fsys]
    ELSE [err |-> "nil",
          fs  |-> [q \in DOMAIN fsys \cup Ancestors(p) \cup {p} |->
                      IF q \in DOMAIN fsys THEN fsys[q] ELSE DirEntry]]

MkdirAll(fsys, p) ==
    LET chain == Ancestors(p) \cup {p}
    IN  IF \E a \in chain : a \in DOMAIN fsys /\ fsys[a].kind # "dir"
        THEN [err |-> "ENOTDIR", fs |-> fsys]
        ELSE [err |-> "nil",
              fs  |-> [q \in DOMAIN fsys \cup chain |->
                          IF q \in DOMAIN fsys THEN fsys[q] ELSE DirEntry]]

\* os.WriteFile(p, bytes, 0o666): create or truncate, then write
OsWriteFile(fsys, p, bytes) ==
    IF Stat(fsys, p) = "dir" THEN [err |-> "EISDIR", fs |-> fsys]
    ELSE IF Stat(fsys, p) = "ELOOP" THEN [err |-> "ELOOP", fs |-> fsys]
    ELSE IF Stat(fsys, Dir(p)) # "dir"
    THEN [err |-> Stat(fsys, Dir(p)), fs |-> fsys]
    ELSE [err |-> "nil",
          fs  |-> [q \in DOMAIN fsys \cup {p} |->
                      IF q = p THEN FileEntry(bytes) ELSE fsys[q]]]

\* Manager.GetFilePath
GetFilePath(hashedDir, filename) == Join(<<SandboxRoot, hashedDir, filename>>)

\* Manager.GetSandboxDir
GetSandboxDir(c) == Join(<<SandboxRoot, hashConversationID(c)>>)

\* Manager.EnsureSandboxDir: [err, hashedDir, fs] (chown and chmod failures
\* are only logged)
EnsureSandboxDirFresh(fsys, c) ==
    LET hashedDir == hashConversationID(c)
        sandboxDir == Join(<<SandboxRoot, hashedDir>>)
        kept == {q \in DOMAIN fsys : Dir(q) # sandboxDir} \cup {sandboxDir}
    IN  IF c = <<>> THEN [err |-> "empty", hashedDir |-> <<>>, fs |-> fsys]
        ELSE IF MkdirAll(fsys, sandboxDir).err # "nil"
        THEN [err |-> MkdirAll(fsys, sandboxDir).err, hashedDir |-> <<>>, fs |-> fsys]
        ELSE [err |-> "nil", hashedDir |-> hashedDir,
              fs |-> [q \in kept |-> IF q \in DOMAIN fsys THEN fsys[q] ELSE DirEntry]]

EnsureSandboxDir(fsys, c) ==
    IF c = <<>> THEN [err |-> "empty", hashedDir |-> <<>>, fs |-> fsys]
    ELSE LET hashedDir == hashConversationID(c)
             mk == MkdirAll(fsys, Join(<<SandboxRoot, hashedDir>>))
         IN  IF mk.err # "nil"
             THEN [err |-> mk.err, hashedDir |-> <<>>, fs |-> fsys]
             ELSE [err |-> "nil", hashedDir |-> hashedDir, fs |-> mk.fs]

\* Manager.WriteFile: [err, fs]
WriteFile(fsys, c, filename, content) ==
    LET sandboxDir == Join(<<SandboxRoot, hashConversationID(c)>>)
        mk == MkdirAll(fsys, sandboxDir)
    IN  IF mk.err # "nil" THEN [err |-> mk.err, fs |-> fsys]
        ELSE OsWriteFile(mk.fs, Join(<<sandboxDir, filename>>), content)

\* Manager.ListFiles: [err, files]; files is the set of names returned
ListFiles(fsys, c) ==
    LET sandboxDir == Join(<<SandboxRoot, hashConversationID(c)>>)
    IN  IF Stat(fsys, sandboxDir) = "ENOENT" THEN [err |-> "nil", files |-> {}]
        ELSE IF Stat(fsys, sandboxDir) # "dir"
        THEN [err |-> Stat(fsys, sandboxDir), files |-> {}]
        ELSE [err |-> "nil",
              files |-> {Base(q) : q \in {e \in DOMAIN fsys :
                            /\ e # sandboxDir
                            /\ Dir(e) = sandboxDir
                            /\ fsys[e].kind # "dir"}}]

----------------------------------------------------------------------------
(* Responses *)

StatusOK == 200

StatusMovedPermanently == 301

StatusBadRequest == 400

StatusForbidden == 403

StatusNotFound == 404

StatusMethodNotAllowed == 405

StatusInternalServerError == 500

\* JSON-RPC InvalidParams
InvalidParams == -32602

NoResp ==
    [op |-> "none", status |-> 0, rpcError |-> 0, success |-> FALSE,
     body |-> <<>>, url |-> <<>>, method |-> "", path |-> <<>>,
     statted |-> FALSE, served |-> <<>>, conv |-> <<>>, name |-> <<>>,
     err |-> "nil", files |-> {}, content |-> <<>>]

NoUpload == [conv |-> <<>>, name |-> <<>>, bytes |-> <<>>, url |-> <<>>]

\* http.Error(w, msg, code): no file bytes in the body
HttpError(method, path, code, statted) ==
    [NoResp EXCEPT !.op = "download", !.status = code, !.method = method,
                   !.path = path, !.statted = statted]

----------------------------------------------------------------------------
(* Server.handleFileDownload *)

FilesPrefix == <<"/", "f", "i", "l", "e", "s", "/">>

IndexPage == <<"/", "i", "n", "d", "e", "x", ".", "h", "t", "m", "l">>

\* the length the handler requires of the hashed directory segment
DirHashLen == 64

\* net/http containsDotDot: some "/"-separated element of the path is ".."
ContainsDotDot(path) == \E i \in 1..Len(Split(path)) : Split(path)[i] = DotDot

\* http.ServeFile(w, r, filePath): rejects a URL path with a ".." element,
\* redirects a URL path ending in /index.html, else sends the file's bytes
ServeFile(fsys, method, urlPath, filePath) ==
    IF ContainsDotDot(urlPath)
    THEN HttpError(method, urlPath, StatusBadRequest, TRUE)
    ELSE IF HasSuffix(urlPath, IndexPage)
    THEN HttpError(method, urlPath, StatusMovedPermanently, TRUE)
    ELSE [NoResp EXCEPT !.op = "download", !.status = StatusOK,
                        !.method = method, !.path = urlPath, !.statted = TRUE,
                        !.body = fsys[filePath].data, !.served = filePath]

\* parts := strings.SplitN(strings.TrimPrefix(r.URL.Path, "/files/"), "/", 2)
PathParts(urlPath) == SplitN2(TrimPrefix(urlPath, FilesPrefix))

\* the validation of hashedDir before the path is built
ValidHashedDir(hashedDir) == Len(hashedDir) = DirHashLen

\* handleFileDownload: the response to a request with this method and
\* r.URL.Path
handleFileDownload(fsys, method, urlPath) ==
    IF method # "GET"
    THEN HttpError(method, urlPath, StatusMethodNotAllowed, FALSE)
    ELSE LET parts == PathParts(urlPath) IN
    IF Len(parts) # 2
    THEN HttpError(method, urlPath, StatusBadRequest, FALSE)
    ELSE LET hashedDir == parts[1]
             filename == parts[2]
             filePath == GetFilePath(hashedDir, filename)
             info == Stat(fsys, filePath)
         IN  IF ~ValidHashedDir(hashedDir)
             THEN HttpError(method, urlPath, StatusBadRequest, FALSE)
             ELSE IF info = "ENOENT"
             THEN HttpError(method, urlPath, StatusNotFound, TRUE)
             ELSE IF info \notin {"dir", "file"}
             THEN HttpError(method, urlPath, StatusInternalServerError, TRUE)
             ELSE IF info = "dir"
             THEN HttpError(method, urlPath, StatusBadRequest, TRUE)
             ELSE IF ~HasPrefix(Clean(filePath), Clean(SandboxRoot))
             THEN HttpError(method, urlPath, StatusForbidden, TRUE)
             ELSE ServeFile(fsys, method, urlPath, filePath)

----------------------------------------------------------------------------
(* MCPHandler.handleUploadFile *)

\* NewErrorResponse(id, InvalidParams, ...)
RpcError(c, f, code) ==
    [NoResp EXCEPT !.op = "upload", !.rpcError = code, !.conv = c, !.name = f]

\* wrapToolResult of {"success": false, "message": "Failed to <stage> ..."}
ToolFailure(c, f, stage) ==
    [NoResp EXCEPT !.op = "upload", !.success = FALSE, !.conv = c, !.name = f,
                   !.err = stage]

\* fileURL := fmt.Sprintf("%s/files/%s/%s", baseURL, hashedDir, args.Filename)
UploadURL(hashedDir, filename) ==
    BaseURL \o <<"/", "f", "i", "l", "e", "s", "/">> \o hashedDir \o <<"/">> \o filename

\* handleUploadFile: [fs, resp, bytes]
handleUploadFileEnsureFirst(fsys, c, filename, content) ==
    LET dec == B64Decode(content)
        e == EnsureSandboxDir(fsys, c)
        w == WriteFile(e.fs, c, filename, dec.bytes)
    IN  IF c = <<>> \/ filename = <<>> \/ content = <<>>
        THEN [fs |-> fsys, resp |-> RpcError(c, filename, InvalidParams), bytes |-> <<>>]
        ELSE IF e.err # "nil"
        THEN [fs |-> e.fs, resp |-> ToolFailure(c, filename, "ensure"), bytes |-> <<>>]
        ELSE IF ~dec.ok
        THEN [fs |-> e.fs, resp |-> ToolFailure(c, filename, "decode"), bytes |-> <<>>]
        ELSE IF w.err # "nil"
        THEN [fs |-> w.fs, resp |-> ToolFailure(c, filename, "write"), bytes |-> <<>>]
        ELSE [fs |-> w.fs,
              resp |-> [NoResp EXCEPT !.op = "upload", !.success = TRUE,
                                      !.conv = c, !.name = filename,
                                      !.url = UploadURL(e.hashedDir, filename)],
              bytes |-> dec.bytes]

handleUploadFile(fsys, c, filename, content) ==
    LET dec == B64Decode(content)
        w == WriteFile(fsys, c, filename, dec.bytes)
        e == EnsureSandboxDir(w.fs, c)
    IN  IF c = <<>> \/ filename = <<>> \/ content = <<>>
        THEN [fs |-> fsys, resp |-> RpcError(c, filename, InvalidParams), bytes |-> <<>>]
        ELSE IF ~dec.ok
        THEN [fs |-> fsys, resp |-> ToolFailure(c, filename, "decode"), bytes |-> <<>>]
        ELSE IF w.err # "nil"
        THEN [fs |-> w.fs, resp |-> ToolFailure(c, filename, "write"), bytes |-> <<>>]
        ELSE IF e.err # "nil"
        THEN [fs |-> e.fs, resp |-> ToolFailure(c, filename, "ensure"), bytes |-> <<>>]
        ELSE [fs |-> e.fs,
              resp |-> [NoResp EXCEPT !.op = "upload", !.success = TRUE,
                                      !.conv = c, !.name = filename,
                                      !.url = UploadURL(e.hashedDir, filename)],
              bytes |-> dec.bytes]

----------------------------------------------------------------------------
(* MCPHandler: Handle, handleToolCall, handleRunCode *)

\* SANDBOX_HOST_PATH
SandboxHostPath == <<"/", "h">>

\* a conversation whose sandbox path is occupied by a regular file, left on
\* the host by something other than the server
BlockedConv == <<"s", "3">>

InvalidRequest == -32600

MethodNotFound == -32601

\* image.Summary values cli.ImageList returns for the label filter
\* sandbox.runner=true: ID, RepoTags and Labels
ImageSummary(k) ==
    CASE k = "python" ->
            [ID |-> "sha256:1", RepoTags |-> <<"img-python:1", "img-python:latest">>,
             Labels |-> [l \in {"sandbox.language"} |-> "python"]]
      [] k = "python untagged" ->
            [ID |-> "sha256:2", RepoTags |-> <<>>,
             Labels |-> [l \in {"sandbox.language"} |-> "python"]]
      [] k = "typescript" ->
            [ID |-> "sha256:3", RepoTags |-> <<"img-ts:1">>,
             Labels |-> [l \in {"sandbox.language"} |-> "typescript"]]
      [] k = "empty label" ->
            [ID |-> "sha256:4", RepoTags |-> <<"img-e:1">>,
             Labels |-> [l \in {"sandbox.language"} |-> ""]]
      [] OTHER ->
            [ID |-> "sha256:5", RepoTags |-> <<"img-n:1">>,
             Labels |-> [l \in {"sandbox.runner"} |-> "true"]]

\* NewRegistry: runnersByLanguage after the loop over the images
RECURSIVE NewRegistryFirstWins(_)
NewRegistryFirstWins(images) ==
    IF images = <<>> THEN [l \in {} |-> 0]
    ELSE LET img == images[1]
             rest == NewRegistryFirstWins(Tail(images))
             language == IF "sandbox.language" \in DOMAIN img.Labels
                         THEN img.Labels["sandbox.language"] ELSE ""
             imageName == IF Len(img.RepoTags) > 0 THEN img.RepoTags[1] ELSE img.ID
         IN  IF language = "" THEN rest
             ELSE [l \in DOMAIN rest \cup {language} |->
                      IF l = language THEN [Image |-> imageName, Language |-> language]
                      ELSE rest[l]]

RECURSIVE NewRegistry(_)
NewRegistry(images) ==
    IF images = <<>> THEN [l \in {} |-> 0]
    ELSE LET img == images[Len(images)]
             before == NewRegistry(SubSeq(images, 1, Len(images) - 1))
             language == IF "sandbox.language" \in DOMAIN img.Labels
                         THEN img.Labels["sandbox.language"] ELSE ""
             imageName == IF Len(img.RepoTags) > 0 THEN img.RepoTags[1] ELSE img.ID
         IN  IF language = "" THEN before
             ELSE [l \in DOMAIN before \cup {language} |->
                      IF l = language THEN [Image |-> imageName, Language |-> language]
                      ELSE before[l]]

\* Registry.GetRunner
GetRunner(reg, language) ==
    IF language \in DOMAIN reg THEN [ok |-> TRUE, Image |-> reg[language].Image]
    ELSE [ok |-> FALSE, Image |-> ""]

\* the key handleRunCode injects
FileBaseURLKey ==
    <<"F", "I", "L", "E", "_", "B", "A", "S", "E", "_", "U", "R", "L">>

\* environment argument absent (nil map)
NilEnv == <<>>

\* Manager.GetSandboxHostPath
GetSandboxHostPathUnderRoot(c) == Join(<<SandboxRoot, hashConversationID(c)>>)

GetSandboxHostPath(c) == Join(<<SandboxHostPath, hashConversationID(c)>>)

\* networkEnabled := false; if args.Network != nil { networkEnabled = *args.Network }
NetworkEnabledDefaultOn(network) == IF network = "absent" THEN TRUE ELSE network = "true"

NetworkEnabled(network) == IF network = "absent" THEN FALSE ELSE network = "true"

\* fileBaseURL := fmt.Sprintf("%s/files/%s", h.signer.GetBaseURL(), hashedDir)
FileBaseURL(hashedDir) == BaseURL \o <<"/", "f", "i", "l", "e", "s", "/">> \o hashedDir

\* env := args.Environment (or an empty map); env["FILE_BASE_URL"] = fileBaseURL
InjectEnvKeepCaller(env, hashedDir) ==
    [k \in DOMAIN env \cup {FileBaseURLKey} |->
        IF k \in DOMAIN env THEN env[k] ELSE FileBaseURL(hashedDir)]

InjectEnv(env, hashedDir) ==
    [k \in DOMAIN env \cup {FileBaseURLKey} |->
        IF k = FileBaseURLKey THEN FileBaseURL(hashedDir) ELSE env[k]]

\* no Execute call made
NoCall ==
    [reached |-> FALSE, hashedDir |-> <<>>, imageName |-> "",
     sandboxDir |-> <<>>, networkEnabled |-> FALSE, environment |-> <<>>]

\* no tools listed
NoListing == [languages |-> <<>>, libraries |-> <<>>]

\* no JSON-RPC response written
NoRpc ==
    [kind |-> "none", id |-> "", status |-> 0, code |-> 0, payload |-> "none",
     success |-> FALSE, stdout |-> 0,
     stderr |-> [notice |-> "none", text |-> 0, arg |-> ""],
     detail |-> <<>>, url |-> <<>>, tools |-> NoListing]

\* NewErrorResponse(id, code, ...)
NewErrorResponse(id, code) ==
    [NoRpc EXCEPT !.kind = "error", !.id = id, !.code = code]

\* NewSuccessResponse(id, result)
NewSuccessResponse(id, payload) ==
    [NoRpc EXCEPT !.kind = "result", !.id = id, !.payload = payload]

\* wrapToolResult(id, RunCodeResult{Success, Stdout, Stderr})
wrapToolResult(id, success, stdout, stderr) ==
    [NewSuccessResponse(id, "run") EXCEPT !.success = success, !.stdout = stdout,
                                          !.stderr = stderr]

\* syscall.Errno.Error()
ErrnoText(e) ==
    CASE e = "ENOTDIR" -> <<"n", "o", "t", " ", "a", " ", "d", "i", "r", "e", "c", "t", "o", "r",
      "y">>
      [] e = "EISDIR"  -> <<"i", "s", " ", "a", " ", "d", "i", "r", "e", "c", "t", "o", "r", "y">>
      [] e = "ELOOP"   -> <<"t", "o", "o", " ", "m", "a", "n", "y", " ", "l", "e", "v", "e", "l",
      "s", " ", "o", "f", " ", "s", "y", "m", "b", "o", "l", "i", "c", " ",
      "l", "i", "n", "k", "s">>
      [] OTHER         -> <<"n", "o", " ", "s", "u", "c", "h", " ", "f", "i", "l", "e", " ", "o",
      "r", " ", "d", "i", "r", "e", "c", "t", "o", "r", "y">>

\* (*fs.PathError).Error(): Op + " " + Path + ": " + Err.Error()
PathErrorText(op, path, e) == op \o <<" ">> \o path \o <<":", " ">> \o ErrnoText(e)

\* the path os.MkdirAll names in its error: the entry on the way to p that
\* exists and is no directory
MkdirAllErrPath(fsys, p) ==
    LET bad == {a \in Ancestors(p) \cup {p} : a \in DOMAIN fsys /\ fsys[a].kind # "dir"}
    IN  IF bad = {} THEN p
        ELSE CHOOSE a \in bad : \A b \in bad : Len(a) <= Len(b)

\* fmt.Errorf("failed to create sandbox directory: %w", err) of
\* EnsureSandboxDir and WriteFile
EnsureErrorText(fsys, c, e) ==
    <<"f", "a", "i", "l", "e", "d", " ", "t", "o", " ", "c", "r", "e", "a",
      "t", "e", " ", "s", "a", "n", "d", "b", "o", "x", " ", "d", "i", "r",
      "e", "c", "t", "o", "r", "y", ":", " ">>
    \o PathErrorText(<<"m", "k", "d", "i", "r">>, MkdirAllErrPath(fsys, GetSandboxDir(c)), e)

\* the error text of Manager.WriteFile
WriteErrorText(fsys, c, filename, e) ==
    IF MkdirAll(fsys, GetSandboxDir(c)).err # "nil"
    THEN EnsureErrorText(fsys, c, e)
    ELSE <<"f", "a", "i", "l", "e", "d", " ", "t", "o", " ", "w", "r", "i", "t",
      "e", " ", "f", "i", "l", "e", ":", " ">>
         \o PathErrorText(<<"o", "p", "e", "n">>, Join(<<GetSandboxDir(c), filename>>), e)

\* Stderr: fmt.Sprintf("Failed to create sandbox: %v", err)
SandboxFailureText(fsys, c, e) ==
    <<"F", "a", "i", "l", "e", "d", " ", "t", "o", " ", "c", "r", "e", "a",
      "t", "e", " ", "s", "a", "n", "d", "b", "o", "x", ":", " ">> \o EnsureErrorText(fsys, c, e)

\* Stderr: fmt.Sprintf("Unsupported language: %s", args.Language)
UnsupportedStderrBlank(language) == [notice |-> "none", text |-> 0, arg |-> ""]

UnsupportedStderr(language) == [notice |-> "unsupported", text |-> 0, arg |-> language]

\* the container.Config and HostConfig Execute builds from its arguments
ContainerConfig(c) ==
    [Image           |-> c.imageName,
     NetworkDisabled |-> ~c.networkEnabled,
     Env             |-> {k \o <<"=">> \o c.environment[k] : k \in DOMAIN c.environment},
     Binds           |-> {c.sandboxDir \o <<":", "/", "d", "a", "t", "a">>}]

\* if args.Code == ""
RequiredCodeUnchecked(a) == FALSE

RequiredCodeMissing(a) == a.code = ""

\* handleRunCode up to the call of Execute: [rpc, call, fs]; rpc is NoRpc
\* when Execute is called
handleRunCodeEnsureFirst(fsys, reg, id, argsJSON, a) ==
    LET r == GetRunner(reg, a.language)
        e == EnsureSandboxDir(fsys, a.conv)
        stop(x) == [rpc |-> x, call |-> NoCall, fs |-> fsys]
    IN  IF argsJSON \in {"absent", "malformed"}
        THEN stop(NewErrorResponse(id, InvalidParams))
        ELSE IF a.conv = <<>> THEN stop(NewErrorResponse(id, InvalidParams))
        ELSE IF a.language = "" THEN stop(NewErrorResponse(id, InvalidParams))
        ELSE IF RequiredCodeMissing(a) THEN stop(NewErrorResponse(id, InvalidParams))
        ELSE IF ~r.ok
        THEN [rpc |-> wrapToolResult(id, FALSE, 0, UnsupportedStderr(a.language)),
              call |-> NoCall, fs |-> e.fs]
        ELSE IF e.err # "nil"
        THEN [rpc |-> [wrapToolResult(id, FALSE, 0,
                          [notice |-> "sandbox", text |-> 0, arg |-> e.err])
                       EXCEPT !.detail = SandboxFailureText(fsys, a.conv, e.err)],
              call |-> NoCall, fs |-> e.fs]
        ELSE [rpc  |-> NoRpc,
              call |-> [reached        |-> TRUE,
                        hashedDir      |-> e.hashedDir,
                        imageName      |-> r.Image,
                        sandboxDir     |-> GetSandboxHostPath(a.conv),
                        networkEnabled |-> NetworkEnabled(a.network),
                        environment    |-> InjectEnv(a.env, e.hashedDir)],
              fs   |-> e.fs]

handleRunCode(fsys, reg, id, argsJSON, a) ==
    LET r == GetRunner(reg, a.language)
        e == EnsureSandboxDir(fsys, a.conv)
        stop(x) == [rpc |-> x, call |-> NoCall, fs |-> fsys]
    IN  IF argsJSON \in {"absent", "malformed"}
        THEN stop(NewErrorResponse(id, InvalidParams))
        ELSE IF a.conv = <<>> THEN stop(NewErrorResponse(id, InvalidParams))
        ELSE IF a.language = "" THEN stop(NewErrorResponse(id, InvalidParams))
        ELSE IF RequiredCodeMissing(a) THEN stop(NewErrorResponse(id, InvalidParams))
        ELSE IF ~r.ok
        THEN stop(wrapToolResult(id, FALSE, 0, UnsupportedStderr(a.language)))
        ELSE IF e.err # "nil"
        THEN [rpc |-> [wrapToolResult(id, FALSE, 0,
                          [notice |-> "sandbox", text |-> 0, arg |-> e.err])
                       EXCEPT !.detail = SandboxFailureText(fsys, a.conv, e.err)],
              call |-> NoCall, fs |-> e.fs]
        ELSE [rpc  |-> NoRpc,
              call |-> [reached        |-> TRUE,
                        hashedDir      |-> e.hashedDir,
                        imageName      |-> r.Image,
                        sandboxDir     |-> GetSandboxHostPath(a.conv),
                        networkEnabled |-> NetworkEnabled(a.network),
                        environment    |-> InjectEnv(a.env, e.hashedDir)],
              fs   |-> e.fs]

\* MCP_API_TOKEN
ApiToken == <<"T", "0">>

\* const bearerPrefix = "Bearer "
BearerPrefix == <<"B", "e", "a", "r", "e", "r", " ">>

StatusUnauthorized == 401

ParseError == -32700

\* auth.Middleware: "next" when the request is passed on, else the 401 message
MiddlewarePrefixOnly(authHeader) ==
    IF authHeader = <<>> THEN "Missing Authorization header"
    ELSE IF ~HasPrefix(authHeader, BearerPrefix) THEN "Invalid Authorization header format"
    ELSE "next"

Middleware(authHeader) ==
    IF authHeader = <<>> THEN "Missing Authorization header"
    ELSE IF ~HasPrefix(authHeader, BearerPrefix) THEN "Invalid Authorization header format"
    ELSE IF TrimPrefix(authHeader, BearerPrefix) # ApiToken THEN "Invalid API token"
    ELSE "next"

\* writeJSONError(w, message, statusCode) and http.Error
HttpReply(code, message) ==
    [NoRpc EXCEPT !.kind = "http", !.status = code,
                  !.stderr = [notice |-> message, text |-> 0, arg |-> ""]]

\* the orders in which a range over a map with key set S can run
Orders(S) ==
    {s \in [1..Cardinality(S) -> S] : \A i, j \in 1..Cardinality(S) : s[i] = s[j] => i = j}

\* the keys of libraryInfo in handleToolsList
LibraryInfo == {"python", "typescript"}

\* handleToolsList: the run_code description is formatted from the languages
\* in the order ListRunners ranged over runnersByLanguage and from the
\* library lines in the order the range over libraryInfo ran
handleToolsList(id, languages, libraries) ==
    [NewSuccessResponse(id, "tools") EXCEPT
        !.tools = [languages |-> languages, libraries |-> libraries]]

\* handleListRunners
handleListRunnersButLast(id, reg, runners) ==
    [NewSuccessResponse(id, "runners") EXCEPT
        !.success = TRUE,
        !.tools = [languages |-> [i \in 1..(Len(runners) - 1) |->
                                    [Language |-> reg[runners[i]].Language,
                                     Image    |-> reg[runners[i]].Image]],
                   libraries |-> <<>>]]

handleListRunners(id, reg, runners) ==
    [NewSuccessResponse(id, "runners") EXCEPT
        !.success = TRUE,
        !.tools = [languages |-> [i \in 1..Len(runners) |->
                                    [Language |-> reg[runners[i]].Language,
                                     Image    |-> reg[runners[i]].Image]],
                   libraries |-> <<>>]]

\* the "message" of a failed upload_file
UploadFailureText(fsys, c, filename, bytes, stage) ==
    CASE stage = "write" ->
            <<"F", "a", "i", "l", "e", "d", " ", "t", "o", " ", "w", "r", "i", "t",
      "e", " ", "f", "i", "l", "e", ":", " ">>
            \o WriteErrorText(fsys, c, filename, WriteFile(fsys, c, filename, bytes).err)
      [] stage = "ensure" ->
            <<"F", "a", "i", "l", "e", "d", " ", "t", "o", " ", "g", "e", "t", " ",
      "d", "i", "r", "e", "c", "t", "o", "r", "y", ":", " ">>
            \o EnsureErrorText(fsys, c, EnsureSandboxDir(fsys, c).err)
      [] stage = "decode" -> <<"F", "a", "i", "l", "e", "d", " ", "t", "o", " ", "d", "e", "c", "o",
      "d", "e", " ", "b", "a", "s", "e", "6", "4", " ", "c", "o", "n", "t",
      "e", "n", "t", ":", " ", "i", "l", "l", "e", "g", "a", "l", " ", "b",
      "a", "s", "e", "6", "4", " ", "d", "a", "t", "a">>
      [] OTHER -> <<>>

\* the JSON-RPC response for what handleUploadFile did (u): an error
\* response or the wrapped tool result
UploadResponse(fsys, id, a, u) ==
    IF u.resp.rpcError # 0
    THEN [rpc |-> NewErrorResponse(id, u.resp.rpcError),
          call |-> NoCall, fs |-> fsys, bytes |-> <<>>]
    ELSE [rpc |-> [NewSuccessResponse(id, "upload") EXCEPT
                      !.success = u.resp.success,
                      !.url = u.resp.url,
                      !.stderr = [notice |-> IF u.resp.success THEN "none" ELSE u.resp.err,
                                  text |-> 0, arg |-> ""],
                      !.detail = UploadFailureText(fsys, a.conv, a.name,
                                                   B64Decode(a.content).bytes, u.resp.err)],
          call |-> NoCall, fs |-> u.fs, bytes |-> u.bytes]

\* handleUploadFile as handleToolCall calls it: arguments unmarshalled, the
\* tool result wrapped
handleUploadFileCall(fsys, id, argsJSON, a) ==
    IF argsJSON \in {"absent", "malformed"}
    THEN [rpc |-> NewErrorResponse(id, InvalidParams),
          call |-> NoCall, fs |-> fsys, bytes |-> <<>>]
    ELSE UploadResponse(fsys, id, a, handleUploadFile(fsys, a.conv, a.name, a.content))

\* run_code arguments; an absent string argument unmarshals to ""
RunArgs(c, language, code, network, env) ==
    [conv |-> c, language |-> language, code |-> code, network |-> network, env |-> env]

\* upload_file arguments
UploadArgs(c, name, content) == [conv |-> c, name |-> name, content |-> content]

\* what json.Unmarshal leaves in the arguments struct: the zero value for a
\* JSON null
UnmarshalArgs(argsJSON, a, zero) == IF argsJSON = "null" THEN zero ELSE a

\* handleToolCall: params unmarshalled, the tool switch
\* what handleRunCode did, as a result of handleToolCall
NoBytes(run) == [rpc |-> run.rpc, call |-> run.call, fs |-> run.fs, bytes |-> <<>>]

\* params.Name and params.Arguments after json.Unmarshal(req.Params, &params)
ToolName(req) == IF req.params = "null" THEN "" ELSE req.tool

ToolArgumentsPresent(req) == "object"

ToolArguments(req) == IF req.params = "null" THEN "absent" ELSE req.arguments

handleToolCall(fsys, reg, req, runners) ==
    IF req.params \in {"absent", "malformed"}
    THEN [rpc |-> NewErrorResponse(req.id, InvalidParams),
          call |-> NoCall, fs |-> fsys, bytes |-> <<>>]
    ELSE CASE ToolName(req) = "upload_file" ->
                handleUploadFileCall(fsys, req.id, ToolArguments(req),
                    UnmarshalArgs(ToolArguments(req), req.upload, UploadArgs(<<>>, <<>>, <<>>)))
           [] ToolName(req) = "run_code" ->
                NoBytes(handleRunCode(fsys, reg, req.id, ToolArguments(req),
                    UnmarshalArgs(ToolArguments(req), req.args,
                                  RunArgs(<<>>, "", "", "absent", <<>>))))
           [] ToolName(req) = "list_runners" ->
                [rpc |-> handleListRunners(req.id, reg, runners),
                 call |-> NoCall, fs |-> fsys, bytes |-> <<>>]
           [] OTHER ->
                [rpc |-> NewErrorResponse(req.id, MethodNotFound),
                 call |-> NoCall, fs |-> fsys, bytes |-> <<>>]

\* Handle: the version check and the method switch; runners is the order in
\* which ListRunners ranges over the catalog, libraries the order of the
\* range over libraryInfo
Handle(fsys, reg, req, runners, libraries) ==
    LET stop(x) == [rpc |-> x, call |-> NoCall, fs |-> fsys, bytes |-> <<>>]
    IN  IF req.jsonrpc # "2.0" THEN stop(NewErrorResponse(req.id, InvalidRequest))
        ELSE CASE req.method = "initialize" -> stop(NewSuccessResponse(req.id, "initialize"))
               [] req.method = "tools/list" ->
                    stop(handleToolsList(req.id, runners, libraries))
               [] req.method = "tools/call" -> handleToolCall(fsys, reg, req, runners)
               [] OTHER -> stop(NewErrorResponse(req.id, MethodNotFound))

\* Server.writeJSONResponse: the response Handle returned is encoded with
\* status 200
writeJSONResponse(h) ==
    [h EXCEPT !.rpc = IF h.rpc = NoRpc THEN NoRpc ELSE [h.rpc EXCEPT !.status = StatusOK]]

\* Server.handleMCP behind auth.Middleware: the bearer check, the HTTP method
\* switch, the body read and parsed, Handle, writeJSONResponse
ServeMCP(fsys, reg, req, runners, libraries) ==
    LET stop(x) == [rpc |-> x, call |-> NoCall, fs |-> fsys, bytes |-> <<>>]
    IN  IF Middleware(req.auth) # "next"
        THEN stop(HttpReply(StatusUnauthorized, Middleware(req.auth)))
        ELSE IF req.http = "GET"
        THEN stop([NoRpc EXCEPT !.kind = "sse", !.status = StatusOK])
        ELSE IF req.http # "POST"
        THEN stop(HttpReply(StatusMethodNotAllowed, "Method not allowed"))
        ELSE IF req.parse # "ok"
        THEN stop([NewErrorResponse("null", ParseError) EXCEPT !.status = StatusOK])
        ELSE writeJSONResponse(Handle(fsys, reg, req, runners, libraries))

\* an authorized POST of a tools/call request for run_code with arguments a
RunCall(a) ==
    [http |-> "POST", auth |-> BearerPrefix \o ApiToken, parse |-> "ok",
     jsonrpc |-> "2.0", id |-> "1", method |-> "tools/call",
     params |-> "object", tool |-> "run_code", arguments |-> "object",
     args |-> a, upload |-> UploadArgs(<<>>, <<>>, <<>>)]

\* the requests the dispatcher is given; the environment argument is absent,
\* has one entry, or also supplies the injected key
RunRequests ==
    LET ok == RunArgs(Conv1, "python", "src", "absent", NilEnv)
        CallerEnv == [k \in {<<"K">>} |-> <<"v">>]
        ClashingEnv ==
            [k \in {<<"K">>, FileBaseURLKey} |-> IF k = <<"K">> THEN <<"v">> ELSE <<"x">>]
    IN  {RunCall(ok),
         RunCall(RunArgs(Conv1, "python", "src", "true", CallerEnv)),
         RunCall(RunArgs(Conv2, "python", "src", "false", ClashingEnv)),
         RunCall(RunArgs(BlockedConv, "python", "src", "absent", NilEnv)),
         RunCall(RunArgs(<<>>, "python", "src", "absent", NilEnv)),
         RunCall(RunArgs(<<>>, "cobol", "src", "absent", NilEnv)),
         RunCall(RunArgs(Conv1, "", "src", "absent", NilEnv)),
         RunCall(RunArgs(Conv1, "python", "", "absent", NilEnv)),
         RunCall(RunArgs(Conv1, "cobol", "", "absent", NilEnv)),
         RunCall(RunArgs(Conv1, "cobol", "src", "absent", NilEnv)),
         [RunCall(ok) EXCEPT !.jsonrpc = "1.0"],
         [RunCall(ok) EXCEPT !.method = "bogus"],
         [RunCall(ok) EXCEPT !.tool = "nope"]}

\* no request being handled
NoRequest ==
    [RunCall(RunArgs(<<>>, "", "", "absent", NilEnv)) EXCEPT
        !.http = "", !.auth = <<>>, !.parse = "", !.jsonrpc = "", !.id = "",
        !.method = "", !.params = "", !.tool = "", !.arguments = ""]

RunIdle ==
    /\ call = NoCall
    /\ rpc = NoRpc
    /\ request = NoRequest
    /\ ensure = <<>>

RunInit ==
    /\ ExecStart
    /\ fs = [p \in {<<"/">>, SandboxRoot, GetSandboxDir(BlockedConv)} |->
                IF p = GetSandboxDir(BlockedConv) THEN FileEntry(<<7>>) ELSE DirEntry]
    /\ resp = NoResp
    /\ lastUpload = NoUpload
    /\ writes = 0
    /\ \E images \in {<<>>, <<ImageSummary("python")>>} :
         /\ discovery = [images |-> images, built |-> TRUE]
         /\ registry = NewRegistry(images)
    /\ listed = NoListing
    /\ RunIdle

\* the dispatcher is not in use
RunOff ==
    /\ discovery = [images |-> <<>>, built |-> TRUE]
    /\ registry = NewRegistry(<<>>)
    /\ listed = NoListing
    /\ RunIdle

\* a tools/call request arrives and is handled up to the response or up to
\* the call of Execute
RunCode ==
    /\ request = NoRequest
    /\ \E req \in RunRequests, runners \in Orders(DOMAIN registry), libraries \in Orders(LibraryInfo) :
         LET h == ServeMCP(fs, registry, req, runners, libraries)
         IN  /\ request' = req
             /\ rpc' = h.rpc
             /\ call' = h.call
             /\ fs' = h.fs
    /\ UNCHANGED <<registry, discovery, ensure, listed, resp, lastUpload, writes, execVars>>

\* Execute runs with the arguments handleRunCode passed
RunExecute ==
    /\ call.reached
    /\ ExecStep
    /\ UNCHANGED <<fileVars, runVars>>

\* Execute returned: RunCodeResult{Success, Stdout, Stderr} is wrapped
RunCodeReturn ==
    /\ call.reached
    /\ pc = "returned"
    /\ rpc = NoRpc
    /\ rpc' = [wrapToolResult(request.id, result.Success, result.Stdout,
                              [notice |-> result.Stderr.notice,
                               text |-> result.Stderr.text, arg |-> ""])
                EXCEPT !.status = StatusOK]
    /\ UNCHANGED <<registry, discovery, ensure, listed, call, request, fileVars, execVars>>

\* the response is written; the server takes the next request
RunDeliver ==
    /\ rpc # NoRpc
    /\ rpc' = NoRpc
    /\ call' = NoCall
    /\ request' = NoRequest
    /\ pc' = "begin"
    /\ callerDone' = FALSE
    /\ deadlineFired' = FALSE
    /\ execCancelled' = FALSE
    /\ container' = "none"
    /\ exitStatus' = NoExit
    /\ waitResp' = "none"
    /\ writer' = "none"
    /\ attachOpen' = FALSE
    /\ pipeOut' = 0
    /\ pipeErr' = 0
    /\ emitted' = 0
    /\ stdoutBuf' = 0
    /\ stderrBuf' = 0
    /\ exitCode' = 0
    /\ timedOut' = FALSE
    /\ result' = ZeroResult
    /\ removeCalls' = 0
    /\ removeOutcome' = "none"
    /\ daemonRemove' = "none"
    /\ firedRunning' = FALSE
    /\ cancelledAt' = "never"
    /\ UNCHANGED <<registry, discovery, ensure, listed, fileVars>>

RunNext ==
    \/ RunCode
    \/ RunExecute
    \/ RunCodeReturn
    \/ RunDeliver

RunSpec == RunInit /\ [][RunNext]_vars

----------------------------------------------------------------------------
(* Requests on the file surface *)

\* content arguments of upload_file: base-64 of the uploaded byte strings
\* (the non-empty prefixes of <<255, 65, 0, 10>> up to length MaxBytes), and
\* text that is not base-64
UploadContents ==
    {B64Encode(SubSeq(<<255, 65, 0, 10>>, 1, k)) : k \in 1..MaxBytes} \cup {<<"!", "!", "!", "!">>}

\* filename arguments of upload_file: plain names, and names with ".."
\* elements that lead to the sandbox root and to the directory of Conv2
UploadNames ==
    {<<"a">>, <<"a", "?", "b">>, <<"i", "n", "d", "e", "x", ".", "h", "t", "m", "l">>,
     <<".", ".", "/", "x">>,
     <<".", ".", "/">> \o hashConversationID(Conv2) \o <<"/", "a">>}

\* the requests handleFileDownload is invoked with: r.URL.Path names the
\* hashed directory h of a conversation, or leaves it for that of another (h2)
DownloadRequests ==
    LET h == hashConversationID(Conv1)
        h2 == hashConversationID(Conv2)
        paths ==
            {FilesPrefix \o h \o <<"/", "a">>,
             FilesPrefix \o h \o <<"/", "s", "u", "b", "/", "i", "n">>,
             FilesPrefix \o h \o <<"/", "s", "u", "b">>,
             FilesPrefix \o h \o <<"/">>,
             FilesPrefix \o h,
             FilesPrefix \o h \o <<"/", ".", ".", "/", ".", ".", "/", "o">>,
             FilesPrefix \o h \o <<"/", ".", ".", "/", ".", ".", "/", "n", "x">>,
             FilesPrefix \o h \o <<"/", ".", ".", "/", ".", ".", "/", "r", "x">>,
             FilesPrefix \o h \o <<"/", ".", ".", "/">> \o h2 \o <<"/", "a">>,
             FilesPrefix \o h \o <<"/", "a", "/", "x">>,
             FilesPrefix \o SubSeq(h, 1, 4) \o <<"/", "a">>,
             FilesPrefix \o Rep("Z", DirHashLen) \o <<"/", "a">>}
    IN  {[method |-> "GET", path |-> p] : p \in paths} \cup
        {[method |-> "POST", path |-> FilesPrefix \o h \o <<"/", "a">>]}

\* the path a client requests for a URL: scheme and host are dropped, the
\* fragment and the query are cut off
RequestPath(url) ==
    LET t == TrimPrefix(url, BaseURL)
        noFrag == IF Index(t, "#") = 0 THEN t ELSE SubSeq(t, 1, Index(t, "#") - 1)
    IN  IF Index(noFrag, "?") = 0 THEN noFrag
        ELSE SubSeq(noFrag, 1, Index(noFrag, "?") - 1)

\* http.ServeMux cleanPath: the path the mux redirects an unclean path to
MuxCleanPath(p) ==
    IF p = <<>> THEN <<"/">>
    ELSE LET np == Clean(IF p[1] = "/" THEN p ELSE <<"/">> \o p)
         IN  IF p[Len(p)] = "/" /\ np # <<"/">> THEN np \o <<"/">> ELSE np

\* GET of a URL by a client that follows redirects: through the mux pattern
\* "/files/" to handleFileDownload; ServeFile's redirect of .../index.html
\* leads to the directory URL
GetURL(fsys, url) ==
    LET p == MuxCleanPath(RequestPath(url))
        r == handleFileDownload(fsys, "GET", p)
    IN  IF r.status = StatusMovedPermanently
        THEN handleFileDownload(fsys, "GET", SubSeq(p, 1, Len(p) - Len(IndexPage) + 1))
        ELSE r

FileInit ==
    /\ ExecStart
    /\ fs = [p \in {<<"/">>, SandboxRoot, <<"/", "o">>, <<"/", "r", "x">>} |->
                IF p \in {<<"/">>, SandboxRoot} THEN DirEntry ELSE FileEntry(<<7>>)]
    /\ resp = NoResp
    /\ lastUpload = NoUpload
    /\ writes = 0
    /\ RunOff

\* no response is in flight
Idle == resp.op = "none"

\* tools/call upload_file
UploadFile ==
    /\ Idle
    /\ writes < MaxWrites
    /\ \E c \in ConvIDs \cup {<<>>}, f \in UploadNames, content \in UploadContents \cup {<<>>} :
         LET u == handleUploadFile(fs, c, f, content)
         IN  /\ fs' = u.fs
             /\ resp' = [u.resp EXCEPT !.content = content]
             /\ lastUpload' = IF u.resp.success
                              THEN [conv |-> c, name |-> f, bytes |-> u.bytes,
                                    url |-> u.resp.url]
                              ELSE IF u.fs = fs THEN lastUpload ELSE NoUpload
    /\ writes' = writes + 1
    /\ UNCHANGED <<execVars, runVars>>

\* run_code for conversation c: the sandbox directory is ensured, and the
\* code in the container, bound to that directory as its working directory,
\* creates a subdirectory and a file in it, or a symbolic link
RunnerWrites ==
    /\ Idle
    /\ writes < MaxWrites
    /\ \E c \in ConvIDs, what \in {"file", "symlink"} :
         LET e == EnsureSandboxDir(fs, c)
             sub == Join(<<GetSandboxDir(c), <<"s", "u", "b">>>>)
             inner == Join(<<sub, <<"i", "n">>>>)
             link == Join(<<GetSandboxDir(c), <<"l", "n">>>>)
         IN  /\ e.err = "nil"
             /\ fs' = IF what = "file"
                      THEN OsWriteFile(MkdirAll(e.fs, sub).fs, inner, <<65>>).fs
                      ELSE [q \in DOMAIN e.fs \cup {link} |->
                               IF q = link THEN [kind |-> "symlink", data |-> <<>>] ELSE e.fs[q]]
    /\ writes' = writes + 1
    /\ lastUpload' = NoUpload
    /\ UNCHANGED <<resp, execVars, runVars>>

\* handleFileDownload is invoked with a request
Download ==
    /\ Idle
    /\ \E r \in DownloadRequests : resp' = handleFileDownload(fs, r.method, r.path)
    /\ UNCHANGED <<fs, lastUpload, writes, execVars, runVars>>

\* a client GETs the URL the last upload_file returned, before anything else
\* is written
GetUploaded ==
    /\ Idle
    /\ lastUpload # NoUpload
    /\ resp' = [GetURL(fs, lastUpload.url) EXCEPT !.op = "get", !.url = lastUpload.url]
    /\ UNCHANGED <<fs, lastUpload, writes, execVars, runVars>>

\* Manager.ListFiles(c) is called
List ==
    /\ Idle
    /\ \E c \in ConvIDs :
         resp' = [NoResp EXCEPT !.op = "list", !.conv = c,
                                !.err = ListFiles(fs, c).err,
                                !.files = ListFiles(fs, c).files]
    /\ UNCHANGED <<fs, lastUpload, writes, execVars, runVars>>

\* the response reaches the client
Deliver ==
    /\ ~Idle
    /\ resp' = NoResp
    /\ UNCHANGED <<fs, lastUpload, writes, execVars, runVars>>

FileNext ==
    \/ Deliver
    \/ UploadFile
    \/ RunnerWrites
    \/ Download
    \/ GetUploaded
    \/ List

FileSpec == FileInit /\ [][FileNext]_vars

\* Execute alone: the file surface is idle
ExecInit ==
    /\ ExecStart
    /\ fs = [p \in {<<"/">>, SandboxRoot} |-> DirEntry]
    /\ resp = NoResp
    /\ lastUpload = NoUpload
    /\ writes = 0
    /\ RunOff

ExecNext == ExecStep /\ UNCHANGED <<fileVars, runVars>>

ExecSpec == ExecInit /\ [][ExecNext]_vars

\* the steps of the goroutine that runs Execute itself
ExecuteSteps ==
    \/ Begin
    \/ ContainerCreate
    \/ ContainerAttach
    \/ ContainerStart
    \/ Spawn
    \/ SelectErr
    \/ SelectStatus
    \/ SelectCtxDone
    \/ Drain
    \/ Report
    \/ DeferClose
    \/ DeferRemove
    \/ DeferCancel

\* Execute under a fair scheduler: the goroutine running Execute is not
\* starved and execCtx's timer fires; the writer, the reader, the container
\* and the daemon's wait answer are under no obligation
ExecLiveSpec ==
    /\ ExecSpec
    /\ WF_vars(ExecuteSteps /\ UNCHANGED <<fileVars, runVars>>)
    /\ WF_vars(DeadlineFire /\ UNCHANGED <<fileVars, runVars>>)


----------------------------------------------------------------------------
(* The /mcp endpoint: every request goes through auth.Middleware,           *)
(* Server.handleMCP and MCPHandler.Handle; Execute is seen from outside, as *)
(* user code acting on the bound directory and an outcome.                  *)

\* the requests sent to /mcp: POST bodies as json.Unmarshal leaves them, with
\* the Authorization headers clients send
McpRequests ==
    LET AuthHeaders ==
        {<<>>,
         ApiToken,
         BearerPrefix \o <<"T", "1">>,
         BearerPrefix \o ApiToken \o <<"x">>,
         <<"b", "e", "a", "r", "e", "r", " ">> \o ApiToken}
        ok == RunCall(RunArgs(Conv1, "python", "src", "absent", NilEnv))
        up == [ok EXCEPT !.tool = "upload_file",
                         !.upload = UploadArgs(Conv1, <<"a">>, B64Encode(<<65>>))]
        upload(c, f, b) == [ok EXCEPT !.tool = "upload_file", !.id = "u",
                                      !.upload = UploadArgs(c, f, b)]
        calls ==
            {ok,
             [ok EXCEPT !.id = "null"],
             RunCall(RunArgs(BlockedConv, "python", "src", "absent", NilEnv)),
             RunCall(RunArgs(Conv1, "cobol", "src", "absent", NilEnv)),
             RunCall(RunArgs(<<>>, "python", "src", "absent", NilEnv)),
             [ok EXCEPT !.arguments = "absent"],
             [ok EXCEPT !.arguments = "malformed", !.id = "a"],
             [ok EXCEPT !.arguments = "null"],
             [ok EXCEPT !.params = "absent"],
             [ok EXCEPT !.params = "malformed"],
             [ok EXCEPT !.params = "null", !.id = "a"],
             [ok EXCEPT !.tool = "nope"],
             [ok EXCEPT !.tool = "list_runners", !.arguments = "absent"],
             [ok EXCEPT !.method = "bogus", !.id = "null"],
             [ok EXCEPT !.method = "initialize"],
             [ok EXCEPT !.method = "tools/list", !.params = "absent"],
             [ok EXCEPT !.method = "tools/list", !.params = "absent", !.id = "a"],
             [ok EXCEPT !.jsonrpc = "1.0"],
             [ok EXCEPT !.jsonrpc = "1.0", !.method = "tools/list", !.id = "a"],
             [ok EXCEPT !.jsonrpc = "", !.method = "bogus"],
             upload(Conv1, <<"a">>, B64Encode(<<255>>)),
             upload(Conv1, <<"a">>, B64Encode(<<65>>)),
             upload(Conv1, <<"b">>, B64Encode(<<65>>)),
             upload(Conv2, <<"a">>, B64Encode(<<65>>)),
             upload(Conv1, <<"a">>, <<"!", "!", "!", "!">>),
             upload(Conv1, <<"a">>, <<>>),
             upload(BlockedConv, <<"a">>, B64Encode(<<65>>)),
             [upload(Conv1, <<"a">>, B64Encode(<<65>>)) EXCEPT !.arguments = "absent"],
             [upload(Conv1, <<"a">>, B64Encode(<<65>>)) EXCEPT !.arguments = "null"]}
    IN  calls
        \cup {[r EXCEPT !.auth = a] : r \in {ok, up}, a \in AuthHeaders}
        \cup {[ok EXCEPT !.http = "GET"], [ok EXCEPT !.http = "PUT"],
              [ok EXCEPT !.http = "GET", !.auth = <<>>],
              [ok EXCEPT !.parse = "syntax"],
              [ok EXCEPT !.parse = "type", !.jsonrpc = "2"],
              [ok EXCEPT !.parse = "syntax", !.auth = <<>>]}

McpInit ==
    /\ ExecStart
    /\ fs = [p \in {<<"/">>, SandboxRoot, GetSandboxDir(BlockedConv)} |->
                IF p = GetSandboxDir(BlockedConv) THEN FileEntry(<<7>>) ELSE DirEntry]
    /\ resp = NoResp
    /\ lastUpload = NoUpload
    /\ writes = 0
    /\ \E images \in {<<>>, <<ImageSummary("python"), ImageSummary("typescript")>>} :
         /\ discovery = [images |-> images, built |-> TRUE]
         /\ registry = NewRegistry(images)
    /\ listed = NoListing
    /\ RunIdle

\* a request to /mcp is served, up to its response or up to the call of
\* Execute
McpServe ==
    /\ request = NoRequest
    /\ Idle
    /\ \E req \in McpRequests, runners \in Orders(DOMAIN registry), libraries \in Orders(LibraryInfo) :
         LET h == ServeMCP(fs, registry, req, runners, libraries)
             uploaded == h.rpc.payload = "upload" /\ h.rpc.success
         IN  /\ h.fs # fs => writes < MaxWrites
             /\ request' = req
             /\ rpc' = h.rpc
             /\ call' = h.call
             /\ fs' = h.fs
             /\ writes' = IF h.fs # fs THEN writes + 1 ELSE writes
             /\ listed' = IF h.rpc.payload = "tools" /\ listed = NoListing
                          THEN h.rpc.tools ELSE listed
             /\ lastUpload' = IF uploaded
                              THEN [conv |-> req.upload.conv, name |-> req.upload.name,
                                    bytes |-> h.bytes, url |-> h.rpc.url]
                              ELSE lastUpload
    /\ UNCHANGED <<registry, discovery, ensure, resp, execVars>>

\* what user code does to the directory bound at /data: it writes a file
\* "o", rewrites the file "a", or removes the file "a"
UserCodeResult(fsys, dir, effect) ==
    LET o == Join(<<dir, <<"o">>>>)
        a == Join(<<dir, <<"a">>>>)
    IN  CASE effect = "write o" ->
                [q \in DOMAIN fsys \cup {o} |-> IF q = o THEN FileEntry(<<66>>) ELSE fsys[q]]
          [] effect = "rewrite a" ->
                [q \in DOMAIN fsys \cup {a} |-> IF q = a THEN FileEntry(<<66>>) ELSE fsys[q]]
          [] OTHER -> [q \in DOMAIN fsys \ {a} |-> fsys[q]]

\* the entry of the last upload, as the filesystem fsys holds it
UploadedEntryIn(fsys) ==
    LET p == Join(<<GetSandboxDir(lastUpload.conv), lastUpload.name>>)
    IN  IF p \in DOMAIN fsys THEN fsys[p] ELSE DirEntry

\* the running container's code changes its working directory
UserCode ==
    /\ call.reached
    /\ rpc = NoRpc
    /\ writes < MaxWrites
    /\ \E effect \in {"write o", "rewrite a", "remove a"} :
         LET after == UserCodeResult(fs, GetSandboxDir(request.args.conv), effect)
         IN  /\ after # fs
             /\ fs' = after
             /\ lastUpload' = IF lastUpload # NoUpload /\ UploadedEntryIn(after) # UploadedEntryIn(fs)
                              THEN NoUpload ELSE lastUpload
    /\ writes' = writes + 1
    /\ UNCHANGED <<resp, runVars, execVars>>

\* Execute returns one of the outcomes handleRunCode can see;
\* RunCodeResult{Success, Stdout, Stderr} is wrapped
McpExecuteReturn ==
    /\ call.reached
    /\ rpc = NoRpc
    /\ \E out \in
         {[ZeroResult EXCEPT !.Success = TRUE, !.Stdout = 1],
          [ZeroResult EXCEPT !.ExitCode = 1],
          [ZeroResult EXCEPT !.ExitCode = -1, !.TimedOut = TRUE,
                             !.Stderr = [notice |-> "timeout", nl |-> FALSE, text |-> 0]],
          FailureResult("create", "daemon")} :
         rpc' = [wrapToolResult(request.id, out.Success, out.Stdout,
                                [notice |-> out.Stderr.notice,
                                 text |-> out.Stderr.text, arg |-> ""])
                 EXCEPT !.status = StatusOK]
    /\ UNCHANGED <<registry, discovery, ensure, listed, call, request, fileVars, execVars>>

\* the response is written; the server takes the next request
McpDeliver ==
    /\ rpc # NoRpc
    /\ rpc' = NoRpc
    /\ call' = NoCall
    /\ request' = NoRequest
    /\ UNCHANGED <<registry, discovery, ensure, listed, fileVars, execVars>>

\* Manager.DeleteSandbox, called by an operator: os.RemoveAll(sandboxDir)
DeleteSandbox ==
    /\ request = NoRequest
    /\ Idle
    /\ writes < MaxWrites
    /\ \E c \in ConvIDs :
         LET sandboxDir == Join(<<SandboxRoot, hashConversationID(c)>>)
             kept == {q \in DOMAIN fs : q # sandboxDir /\ Dir(q) # sandboxDir}
         IN  /\ sandboxDir \in DOMAIN fs
             /\ fs' = [q \in kept |-> fs[q]]
             /\ lastUpload' = IF lastUpload.conv = c THEN NoUpload ELSE lastUpload
    /\ writes' = writes + 1
    /\ UNCHANGED <<resp, runVars, execVars>>

\* (a download request is served between two /mcp requests)
McpNext ==
    \/ McpServe
    \/ UserCode
    \/ McpExecuteReturn
    \/ McpDeliver
    \/ DeleteSandbox
    \/ (request = NoRequest /\ Download)
    \/ Deliver

McpSpec == McpInit /\ [][McpNext]_vars

----------------------------------------------------------------------------
(* Two handlers call Manager.EnsureSandboxDir for one conversation at the   *)
(* same time; each call is a stat and a mkdir (os.MkdirAll), a chown and a  *)
(* chmod.                                                                   *)

EnsureInit ==
    /\ ExecStart
    /\ resp = NoResp
    /\ lastUpload = NoUpload
    /\ writes = 0
    /\ discovery = [images |-> <<>>, built |-> TRUE]
    /\ registry = NewRegistry(<<>>)
    /\ listed = NoListing
    /\ call = NoCall
    /\ rpc = NoRpc
    /\ request = NoRequest
    /\ \E c \in ConvIDs : \E made \in {{}, {c}, ConvIDs} :
         /\ fs = [q \in {<<"/">>, SandboxRoot}
                        \cup {GetSandboxDir(d) : d \in made}
                        \cup {Join(<<GetSandboxDir(d), <<"a">>>>) : d \in made} |->
                    IF q \in {Join(<<GetSandboxDir(d), <<"a">>>>) : d \in made}
                    THEN FileEntry(<<65>>) ELSE DirEntry]
         /\ \E meta \in {[owner |-> "server", mode |-> "0755"],
                          [owner |-> "1000", mode |-> "0777"]} :
              ensure = [conv   |-> c,
                        pc     |-> <<"stat", "stat">>,
                        saw    |-> <<"", "">>,
                        ret    |-> <<[err |-> "", hashedDir |-> <<>>],
                                     [err |-> "", hashedDir |-> <<>>]>>,
                        owner  |-> IF c \in made THEN meta.owner ELSE "",
                        mode   |-> IF c \in made THEN meta.mode ELSE "",
                        before |-> fs]

\* os.MkdirAll, fast path: os.Stat(path); a directory is left as it is
MkdirAllStat(p) ==
    /\ ensure.pc[p] = "stat"
    /\ ensure' = [ensure EXCEPT
                    !.saw[p] = Stat(fs, GetSandboxDir(ensure.conv)),
                    !.pc[p] = IF Stat(fs, GetSandboxDir(ensure.conv)) = "dir"
                              THEN "chown" ELSE "mkdir"]
    /\ UNCHANGED <<execVars, fileVars, registry, discovery, request, call, rpc, listed>>

\* os.MkdirAll, slow path: Mkdir(path, 0777); when it fails and the path is
\* a directory by now, MkdirAll returns nil
MkdirAllMkdirExclusive(p) ==
    /\ ensure.pc[p] = "mkdir"
    /\ LET r == MkdirExclusive(fs, GetSandboxDir(ensure.conv))
       IN  IF r.err = "nil"
           THEN /\ fs' = r.fs
                /\ ensure' = [ensure EXCEPT
                                !.pc[p] = "chown",
                                !.owner = IF r.fs = fs THEN @ ELSE "server",
                                !.mode  = IF r.fs = fs THEN @ ELSE "0755"]
           ELSE /\ fs' = fs
                /\ ensure' = [ensure EXCEPT
                                !.pc[p] = "done",
                                !.ret[p] = [err |-> r.err, hashedDir |-> <<>>]]
    /\ UNCHANGED <<execVars, resp, lastUpload, writes, registry, discovery,
                   request, call, rpc, listed>>

MkdirAllMkdir(p) ==
    /\ ensure.pc[p] = "mkdir"
    /\ LET r == MkdirAll(fs, GetSandboxDir(ensure.conv))
       IN  IF r.err = "nil"
           THEN /\ fs' = r.fs
                /\ ensure' = [ensure EXCEPT
                                !.pc[p] = "chown",
                                !.owner = IF r.fs = fs THEN @ ELSE "server",
                                !.mode  = IF r.fs = fs THEN @ ELSE "0755"]
           ELSE /\ fs' = fs
                /\ ensure' = [ensure EXCEPT
                                !.pc[p] = "done",
                                !.ret[p] = [err |-> r.err, hashedDir |-> <<>>]]
    /\ UNCHANGED <<execVars, resp, lastUpload, writes, registry, discovery,
                   request, call, rpc, listed>>

\* os.Chown(sandboxDir, 1000, 1000): a failure is only logged
Chown(p) ==
    /\ ensure.pc[p] = "chown"
    /\ \E ok \in BOOLEAN :
         ensure' = [ensure EXCEPT !.pc[p] = "chmod",
                                  !.owner = IF ok THEN "1000" ELSE @]
    /\ UNCHANGED <<execVars, fileVars, registry, discovery, request, call, rpc, listed>>

\* os.Chmod(sandboxDir, 0777): a failure is only logged; return hashedDir, nil
Chmod(p) ==
    /\ ensure.pc[p] = "chmod"
    /\ \E ok \in BOOLEAN :
         ensure' = [ensure EXCEPT
                      !.pc[p] = "done",
                      !.mode = IF ok THEN "0777" ELSE @,
                      !.ret[p] = [err |-> "nil",
                                  hashedDir |-> hashConversationID(ensure.conv)]]
    /\ UNCHANGED <<execVars, fileVars, registry, discovery, request, call, rpc, listed>>

EnsureSpec ==
    EnsureInit /\ [][\E p \in {1, 2} : MkdirAllStat(p) \/ MkdirAllMkdir(p) \/ Chown(p) \/ Chmod(p)]_vars

----------------------------------------------------------------------------
(* Startup: main builds the catalog from the images the daemon lists *)

RegistryInit ==
    /\ ExecStart
    /\ fs = [p \in {<<"/">>, SandboxRoot} |-> DirEntry]
    /\ resp = NoResp
    /\ lastUpload = NoUpload
    /\ writes = 0
    /\ listed = NoListing
    /\ RunIdle
    /\ registry = NewRegistry(<<>>)
    /\ \E n \in 0..MaxImages :
         \E images \in [1..n -> {ImageSummary(k) :
                                    k \in {"python", "python untagged", "typescript",
                                           "empty label", "no label"}}] :
            discovery = [images |-> images, built |-> FALSE]

\* runner.NewRegistry(ctx, dockerClient)
Discover ==
    /\ ~discovery.built
    /\ registry' = NewRegistry(discovery.images)
    /\ discovery' = [discovery EXCEPT !.built = TRUE]
    /\ UNCHANGED <<execVars, fileVars, ensure, request, call, rpc, listed>>

RegistrySpec == RegistryInit /\ [][Discover]_vars

----------------------------------------------------------------------------
(* Claims about Executor.Execute *)

Returned == pc = "returned"

\* C1: every outcome Execute returns, on every path, has success exactly
\* when exit-code = 0, timed-out is false and no internal error occurred.
C1_SuccessIff ==
    Returned =>
        (result.Success <=>
            (result.ExitCode = 0 /\ ~result.TimedOut /\ result.Error = "nil"))

C1_Witness ==
    /\ Returned
    /\ result.Success
    /\ exitStatus = 0

\* C2 (as claimed): when the execution deadline fires while the waiter
\* selects, the container is running and it never exits on its own, the
\* outcome has success=false, timed-out=true and exit-code=-1.
C2_TimeoutAlwaysReported ==
    (Returned /\ firedRunning /\ exitStatus = NoExit) =>
        (~result.Success /\ result.TimedOut /\ result.ExitCode = -1)

\* C3: when container creation succeeded, exactly one force-remove has been
\* issued by the time Execute returns, on every path, and never more than one.
C3_ExactlyOneRemove ==
    /\ removeCalls <= 1
    /\ (Returned /\ container # "none") => removeCalls = 1

C3_Witness ==
    /\ Returned
    /\ result.Stderr.notice = "attach"
    /\ removeCalls = 1

\* C4: cancellation of the caller's context after creation succeeded never
\* makes the force-remove be skipped or aborted: the request is issued and
\* ends only by the daemon's answer or by its own 5-second deadline.
C4_RemoveNotCancelledByCaller ==
    (callerDone /\ container # "none" /\ pc \in {"deferCancel", "returned"}) =>
        (removeCalls = 1 /\ removeOutcome \in {"removed", "error", "deadline"})

C4_Witness ==
    /\ Returned
    /\ cancelledAt \in {"attach", "start", "spawn", "select", "drain", "report"}
    /\ removeOutcome = "removed"

C6_CancelReportsTimedOut ==
    (Returned /\ cancelledAt \in {"create", "attach", "start", "spawn", "select"}) =>
        result.TimedOut

----------------------------------------------------------------------------
(* Claims about the file surface *)

\* the realized path of a download request that passed the handler's checks
\* of the method, the two path parts and the hashed directory's length
Realized(r) ==
    /\ r.op = "download"
    /\ r.method = "GET"
    /\ Len(PathParts(r.path)) = 2
    /\ ValidHashedDir(PathParts(r.path)[1])

RealizedPath(r) == GetFilePath(PathParts(r.path)[1], PathParts(r.path)[2])

\* C7 (as claimed): a download request whose cleaned realized path does not
\* begin with the cleaned sandbox root is answered 403 and served no bytes,
\* whether or not a file exists at that path.
C7_TraversalAnswered403 ==
    (Realized(resp) /\ ~HasPrefix(Clean(RealizedPath(resp)), Clean(SandboxRoot))) =>
        (resp.status = StatusForbidden /\ resp.body = <<>>)

\* a lowercase hex string of 64 characters
IsHashedID(s) ==
    /\ Len(s) = HashLen
    /\ \A i \in 1..Len(s) : \E k \in 1..16 : HexDigits[k] = s[i]

\* C8 (as claimed): a request whose hashed-id segment is not 64 characters of
\* [0-9a-f] is answered 400 before any filesystem access is made.
C8_OnlyHexIdsPassValidation ==
    (/\ resp.op = "download"
     /\ resp.method = "GET"
     /\ Len(PathParts(resp.path)) = 2
     /\ ~IsHashedID(PathParts(resp.path)[1])) =>
        (resp.status = StatusBadRequest /\ ~resp.statted)

\* C9 (as claimed): only regular files at depth 1 of a sandbox are exposed: a
\* download that sends bytes sends a file lying directly in the sandbox
\* directory the request names, a request naming a directory sends none, and
\* listings hold no directory entries.
C9_OnlyDepthOneFilesExposed ==
    /\ (resp.op = "download" /\ resp.served # <<>>) =>
          /\ fs[resp.served].kind = "file"
          /\ Dir(resp.served) = Join(<<SandboxRoot, PathParts(resp.path)[1]>>)
    /\ (Realized(resp) /\ Stat(fs, RealizedPath(resp)) = "dir") => resp.body = <<>>
    /\ resp.op = "list" =>
          \A n \in resp.files : Stat(fs, Join(<<GetSandboxDir(resp.conv), n>>)) # "dir"

\* C10 (as claimed): a successful upload_file of base64(B) under (c, f)
\* followed by a GET of the URL in the upload result returns 200 with body B.
C10_UploadDownloadRoundTrip ==
    resp.op = "get" => (resp.status = StatusOK /\ resp.body = lastUpload.bytes)

----------------------------------------------------------------------------
(* Claims about run_code *)

\* a well-formed tools/call of run_code is being handled
IsRunCode ==
    /\ request.jsonrpc = "2.0"
    /\ request.method = "tools/call"
    /\ request.tool = "run_code"

\* one of the required run_code arguments is missing or empty
MissingRequired ==
    request.args.conv = <<>> \/ request.args.language = "" \/ request.args.code = ""

\* C11: whenever handleRunCode has called Execute, the path bound to /data is
\* the sandbox host path joined with the hashed id of the request's
\* conversation, and the server-view directory ensured for the request is
\* the sandbox root joined with that same hashed id.
C11_BindIsHostPathOfEnsuredHash ==
    call.reached =>
        /\ call.hashedDir = hashConversationID(request.args.conv)
        /\ ContainerConfig(call).Binds =
              {Join(<<SandboxHostPath, call.hashedDir>>) \o <<":", "/", "d", "a", "t", "a">>}
        /\ Stat(fs, Join(<<SandboxRoot, call.hashedDir>>)) = "dir"

C11_Witness ==
    /\ call.reached
    /\ container = "running"
    /\ request.args.conv = Conv2
    /\ Stat(fs, GetSandboxDir(Conv2)) = "dir"

\* C12: the container of a run_code is configured with networking disabled
\* unless the request carries network=true; an absent network argument gives
\* the same configuration as network=false.
C12_NetworkOffUnlessRequested ==
    call.reached =>
        (ContainerConfig(call).NetworkDisabled <=> request.args.network # "true")

C12_Witness ==
    /\ call.reached
    /\ container = "running"
    /\ request.args.network = "absent"
    /\ ContainerConfig(call).NetworkDisabled

C14_MissingArgumentIsInvalidParams ==
    (IsRunCode /\ MissingRequired) =>
        /\ rpc = [NewErrorResponse(request.id, InvalidParams) EXCEPT !.status = StatusOK]
        /\ ~call.reached

C14_Witness ==
    /\ IsRunCode
    /\ request.args.code = ""
    /\ request.args.conv # <<>>
    /\ request.args.language = "python"
    /\ DOMAIN registry = {"python"}
    /\ rpc.kind = "error"

\* the payload of a tool result carries some text
HasDiagnostic == rpc.stderr.notice # "none" \/ rpc.stderr.text > 0 \/ rpc.stdout > 0

\* C15 (as claimed): every tool failure is a JSON-RPC result whose payload
\* has success=false and non-empty diagnostic text, and an error member is
\* written only for protocol errors.
C15_ToolErrorsCarryDiagnostics ==
    /\ (rpc.kind = "result" /\ ~rpc.success) => HasDiagnostic
    /\ rpc.kind = "error" => (~IsRunCode \/ MissingRequired)
    /\ (IsRunCode /\ ~MissingRequired /\ rpc # NoRpc) => rpc.kind = "result"

\* C16: a run_code whose language is not in the catalog, the empty catalog
\* included, gets a tool result with success=false and stderr naming the
\* language; nothing is executed and the server can take the next request.
C16_UnknownLanguageIsToolFailure ==
    (IsRunCode /\ ~MissingRequired /\ request.args.language \notin DOMAIN registry) =>
        /\ rpc.kind = "result"
        /\ ~rpc.success
        /\ rpc.stderr.notice = "unsupported"
        /\ rpc.stderr.arg = request.args.language
        /\ ~call.reached
        /\ pc = "begin"
        /\ ENABLED RunDeliver

C16_Witness ==
    /\ IsRunCode
    /\ DOMAIN registry = {}
    /\ request.args.language = "python"
    /\ rpc.kind = "result"
    /\ ~rpc.success

----------------------------------------------------------------------------
(* Claims about upload_file, file URLs, the sandbox directory and listings *)

\* C17: an upload_file whose content is not base-64 is answered with a tool
\* result of success=false and no JSON-RPC error, and the handling writes no
\* file and creates no directory.
C17_BadBase64WritesNothing ==
    [][(/\ resp'.op = "upload"
        /\ resp' # resp
        /\ resp'.conv # <<>>
        /\ resp'.name # <<>>
        /\ resp'.content # <<>>
        /\ ~B64Decode(resp'.content).ok) =>
            (/\ resp'.rpcError = 0
             /\ ~resp'.success
             /\ resp'.err = "decode"
             /\ fs' = fs)]_vars

C17_Witness ==
    /\ resp.op = "upload"
    /\ resp.content = <<"!", "!", "!", "!">>
    /\ ~resp.success
    /\ resp.rpcError = 0
    /\ Stat(fs, GetSandboxDir(resp.conv)) = "ENOENT"

\* url.PathEscape of one character
EscapeChar(ch) ==
    CASE ch = "?" -> <<"%", "3", "F">>
      [] ch = "/" -> <<"%", "2", "F">>
      [] ch = "#" -> <<"%", "2", "3">>
      [] ch = "%" -> <<"%", "2", "5">>
      [] ch = " " -> <<"%", "2", "0">>
      [] OTHER    -> <<ch>>

\* url.PathEscape
RECURSIVE PathEscape(_)
PathEscape(s) == IF s = <<>> THEN <<>> ELSE EscapeChar(Head(s)) \o PathEscape(Tail(s))

\* strings.TrimRight(s, "/")
RECURSIVE TrimRightSlash(_)
TrimRightSlash(s) ==
    IF s # <<>> /\ s[Len(s)] = "/" THEN TrimRightSlash(SubSeq(s, 1, Len(s) - 1)) ELSE s

\* C18 (as claimed): the URL a successful upload_file returns is the public
\* base URL without trailing slashes, "/files/", the hashed id, "/" and the
\* URL-escaped filename, and it has no query.
C18_FileURLEscaped ==
    (resp.op = "upload" /\ resp.success) =>
        /\ resp.url = TrimRightSlash(BaseURL) \o FilesPrefix
                        \o hashConversationID(resp.conv) \o <<"/">> \o PathEscape(resp.name)
        /\ Index(resp.url, "?") = 0

RegularFileNames(c) ==
    {Base(p) : p \in {q \in DOMAIN fs : /\ q # GetSandboxDir(c)
                                        /\ Dir(q) = GetSandboxDir(c)
                                        /\ fs[q].kind = "file"}}

\* C20 (as claimed): list-files returns the empty sequence without error when
\* the sandbox directory does not exist, and otherwise exactly the names of
\* the regular-file entries of the directory.
C20_ListIsRegularFiles ==
    resp.op = "list" =>
        /\ resp.err = "nil"
        /\ resp.files = IF Stat(fs, GetSandboxDir(resp.conv)) = "ENOENT"
                        THEN {}
                        ELSE RegularFileNames(resp.conv)

----------------------------------------------------------------------------
(* Claims about the tasks inside Executor.Execute *)

\* C26 (as claimed): when the waiter has accepted the container's exit, and
\* whenever an outcome built from it is returned, the writer has written the
\* whole code to stdin and half-closed it.
C26_StdinClosedBeforeExitAccepted ==
    /\ (pc = "drain" /\ ~timedOut) => writer = "closed"
    /\ (Returned /\ result.Error = "nil" /\ ~result.TimedOut) => writer = "closed"

\* the position of Execute after the time.Sleep that follows the select
Drained == pc = "report"

\* C27 (as claimed): every step that reads the output buffers into the
\* outcome is taken after the waiter has fired and the 100 ms drain delay has
\* elapsed.
C27_BuffersReadAfterDrain ==
    [][(SelectErr \/ Report) => Drained]_vars

\* C28: every call to Execute eventually returns, the outcome is written
\* exactly once, and after it is written Execute only unwinds its defers.
C28_ExecuteReturnsOneOutcome ==
    /\ <>Returned
    /\ [][result' # result =>
            (/\ result = ZeroResult
             /\ pc' \in {"deferClose", "deferRemove", "deferCancel"})]_vars
    /\ [][(pc \in {"deferClose", "deferRemove", "deferCancel", "returned"}) =>
            (result' = result)]_vars

C28_Witness ==
    /\ Returned
    /\ result.TimedOut
    /\ writer = "writing"
    /\ container = "running"

\* C29: the step that takes the wait error from errCh writes an outcome with
\* success=false, the stdout captured so far, and a stderr made of the wait
\* error and the stderr captured so far.
C29_WaitErrorKeepsOutput ==
    [][(pc = "select" /\ pc' = "deferClose") =>
            (/\ waitResp \in {"errCtx", "errDaemon"}
             /\ ~result'.Success
             /\ result'.Stdout = stdoutBuf
             /\ result'.Stderr = [notice |-> "wait", nl |-> TRUE, text |-> stderrBuf]
             /\ result'.Error # "nil")]_vars

C29_Witness ==
    /\ result.Stderr.notice = "wait"
    /\ result.Stdout + result.Stderr.text > 0
    /\ ~result.Success

\* C30: when container creation fails, Execute returns an outcome with
\* success=false whose stderr is the create-failure message with the error,
\* and no attach, start, wait or remove call is made.
C30_CreateFailureStopsThere ==
    result.Stderr.notice = "create" =>
        /\ ~result.Success
        /\ result.Error # "nil"
        /\ pc \in {"deferCancel", "returned"}
        /\ container = "none"
        /\ ~attachOpen
        /\ writer = "none"
        /\ waitResp = "none"
        /\ removeCalls = 0

C30_Witness ==
    /\ Returned
    /\ result.Stderr.notice = "create"
    /\ result.Error = "daemon"

----------------------------------------------------------------------------
(* Claims about the /mcp endpoint *)

\* a request is taken or a response is written in this step
RequestStep == request' # request \/ rpc' # rpc \/ resp' # resp

\* C21: no step in which a request is taken or answered removes a sandbox
\* directory or a file; and after a successful upload_file(c, f, B), as long
\* as user code, a later upload of f or DeleteSandbox(c) has not changed it,
\* the directory of c holds f with bytes B and a run_code on c is bound to
\* that directory.
C21_SandboxPersists ==
    /\ [](lastUpload # NoUpload =>
            /\ UploadedEntryIn(fs) = FileEntry(lastUpload.bytes)
            /\ (call.reached /\ request.args.conv = lastUpload.conv) =>
                  call.sandboxDir = Join(<<SandboxHostPath, hashConversationID(lastUpload.conv)>>))
    /\ [][RequestStep =>
            (\A p \in DOMAIN fs : p \in DOMAIN fs' /\ fs'[p].kind = fs[p].kind)]_vars

C21_Witness ==
    /\ lastUpload # NoUpload
    /\ call.reached
    /\ rpc = NoRpc
    /\ request.args.conv = lastUpload.conv
    /\ lastUpload.bytes = <<255>>

\* C22: a request to /mcp whose Authorization header is not "Bearer "
\* followed by the configured token is answered 401 with an error message,
\* and serving it parses no body, changes no file or directory and starts
\* no container.
C22_OnlyBearerTokenReachesHandler ==
    [][(request = NoRequest /\ request' # NoRequest
        /\ request'.auth # BearerPrefix \o ApiToken) =>
            (/\ rpc'.kind = "http"
             /\ rpc'.status = StatusUnauthorized
             /\ rpc'.stderr.notice \notin {"none", ""}
             /\ ~call'.reached
             /\ fs' = fs
             /\ lastUpload' = lastUpload
             /\ listed' = listed)]_vars

C22_Witness ==
    /\ request.tool = "upload_file"
    /\ request.auth = BearerPrefix \o <<"T", "1">>
    /\ rpc.status = StatusUnauthorized
    /\ Stat(fs, GetSandboxDir(request.upload.conv)) = "ENOENT"

\* the authorized POST being answered
Answered ==
    /\ request # NoRequest
    /\ request.auth = BearerPrefix \o ApiToken
    /\ request.http = "POST"
    /\ rpc # NoRpc

RpcErrorIs(code) == rpc.kind = "error" /\ rpc.code = code

\* C23: an unparseable body is answered with -32700; a parsed request with a
\* jsonrpc member other than "2.0" with -32600 whatever its method; an
\* unknown method or tool name with -32601; unparseable or missing tool
\* arguments with -32602; and every response of the handler carries the
\* request's id.
C23_ErrorCodeMapping ==
    Answered =>
        /\ request.parse # "ok" => RpcErrorIs(-32700)
        /\ request.parse = "ok" =>
              /\ rpc.id = request.id
              /\ request.jsonrpc # "2.0" => RpcErrorIs(-32600)
              /\ (/\ request.jsonrpc = "2.0"
                  /\ request.method \notin {"initialize", "tools/list", "tools/call"}) =>
                        RpcErrorIs(-32601)
              /\ (/\ request.jsonrpc = "2.0"
                  /\ request.method = "tools/call"
                  /\ \/ request.params = "null"
                     \/ /\ request.params = "object"
                        /\ request.tool \notin {"run_code", "upload_file", "list_runners"}) =>
                        RpcErrorIs(-32601)
              /\ (/\ request.jsonrpc = "2.0"
                  /\ request.method = "tools/call"
                  /\ \/ request.params \in {"absent", "malformed"}
                     \/ /\ request.params = "object"
                        /\ request.tool \in {"run_code", "upload_file"}
                        /\ request.arguments \in {"absent", "malformed"}) =>
                        RpcErrorIs(-32602)

C23_Witness ==
    /\ Answered
    /\ request.jsonrpc = "1.0"
    /\ request.method = "tools/list"
    /\ rpc.code = InvalidRequest
    /\ rpc.id = "a"

\* C24 (as claimed): the catalog never changes and every tools/list call
\* returns the tool schemas the first tools/list call of the process
\* returned.
C24_ToolsListStable ==
    /\ registry = NewRegistry(discovery.images)
    /\ (rpc.payload = "tools" /\ listed # NoListing) => rpc.tools = listed

\* strings.Contains
ContainsSub(s, sub) ==
    \E i \in 1..(Len(s) - Len(sub) + 1) : SubSeq(s, i, i + Len(sub) - 1) = sub

\* C25 (as claimed): when EnsureSandboxDir or WriteFile fails, the text
\* returned for run_code or upload_file does not contain the sandbox root
\* path, and no response contains FILE_SECRET or MCP_API_TOKEN.
C25_NoPathOrSecretInMessages ==
    /\ rpc.stderr.notice \in {"sandbox", "write", "ensure"} =>
          ~ContainsSub(rpc.detail, SandboxRoot)
    /\ \A secret \in {FileSecret, ApiToken} :
          ~ContainsSub(rpc.detail, secret) /\ ~ContainsSub(rpc.url, secret)

----------------------------------------------------------------------------
(* Claims about the reported output *)

\* C31: an outcome with TimedOut = TRUE has as Stderr the timeout notice,
\* followed by a newline and the captured stderr when some was captured and
\* alone otherwise, and as Stdout the stdout captured when it is built.
C31_TimeoutNoticePrefixesStderr ==
    [][(result'.TimedOut /\ ~result.TimedOut) =>
          (/\ result'.Stderr = [notice |-> "timeout", nl |-> stderrBuf > 0,
                                text |-> stderrBuf]
           /\ result'.Stdout = stdoutBuf)]_vars

C31_Witness ==
    /\ Returned
    /\ result.TimedOut
    /\ result.Stderr = [notice |-> "timeout", nl |-> FALSE, text |-> 0]
    /\ result.Stdout > 0

\* C38 (as claimed): when the container exited on its own, the outcome holds
\* every chunk the container emitted on stdout and stderr.
C38_OutputComplete ==
    (Returned /\ ~result.TimedOut /\ result.Error = "nil") =>
        result.Stdout + result.Stderr.text = emitted

----------------------------------------------------------------------------
(* Claims about what requests leave alone *)

\* C34: a run_code request answered with InvalidParams or with the
\* unsupported-language failure changes no file or directory and reaches no
\* container.
C34_RejectedRunCodeChangesNothing ==
    [][(/\ request = NoRequest
        /\ request'.method = "tools/call"
        /\ request'.tool = "run_code"
        /\ \/ rpc'.kind = "error" /\ rpc'.code = InvalidParams
           \/ rpc'.stderr.notice = "unsupported") =>
            (fs' = fs /\ call' = NoCall /\ lastUpload' = lastUpload)]_vars

C34_Witness ==
    /\ request.tool = "run_code"
    /\ rpc.stderr.notice = "unsupported"
    /\ request.args.conv # <<>>
    /\ Stat(fs, GetSandboxDir(request.args.conv)) = "ENOENT"

\* the files an upload step wrote: created, or changed
Written == {p \in DOMAIN fs' : fs'[p].kind = "file" /\ (p \notin DOMAIN fs \/ fs'[p] # fs[p])}

\* C35 (as claimed): every file a successful upload_file for conversation c
\* writes lies directly inside sandbox-root/hashed-id(c).
C35_UploadStaysInSandboxDir ==
    [][(resp.op = "none" /\ resp'.op = "upload" /\ resp'.success) =>
          (\A p \in Written : Dir(p) = GetSandboxDir(resp'.conv))]_vars

\* C36 (as claimed): distinct conversation ids have distinct sandbox
\* directories and bind paths, and an upload_file for conversation c leaves
\* every entry of the directory of another conversation as it was.
C36_ConversationsIsolated ==
    /\ [](\A c1, c2 \in ConvIDs :
            c1 # c2 => /\ GetSandboxDir(c1) # GetSandboxDir(c2)
                       /\ GetSandboxHostPath(c1) # GetSandboxHostPath(c2))
    /\ [][(resp.op = "none" /\ resp'.op = "upload") =>
            (\A c2 \in ConvIDs \ {resp'.conv} :
               \A p \in DOMAIN fs \cup DOMAIN fs' :
                  Dir(p) = GetSandboxDir(c2) =>
                     (p \in DOMAIN fs /\ p \in DOMAIN fs' /\ fs'[p] = fs[p]))]_vars

----------------------------------------------------------------------------
(* Claims about the runner catalog *)

\* the sandbox.language label of an image, "" when it has none
LanguageOf(img) ==
    IF "sandbox.language" \in DOMAIN img.Labels THEN img.Labels["sandbox.language"] ELSE ""

\* C33: the catalog NewRegistry builds holds no entry for an image whose
\* sandbox.language label is absent or empty, and one entry for every other
\* language, whose image reference is the first repo tag, else the id, of the
\* last listed image with that language.
C33_RegistryConstruction ==
    discovery.built =>
        LET images == discovery.images
            Declaring(l) == {i \in 1..Len(images) : LanguageOf(images[i]) = l}
        IN  /\ "" \notin DOMAIN registry
            /\ \A l \in DOMAIN registry : Declaring(l) # {}
            /\ \A i \in 1..Len(images) :
                  LanguageOf(images[i]) # "" => LanguageOf(images[i]) \in DOMAIN registry
            /\ \A l \in DOMAIN registry :
                  LET last == CHOOSE i \in Declaring(l) : \A j \in Declaring(l) : j <= i
                      img  == images[last]
                  IN  registry[l] =
                         [Image    |-> IF img.RepoTags # <<>> THEN img.RepoTags[1] ELSE img.ID,
                          Language |-> l]

C33_Witness ==
    /\ discovery.built
    /\ Len(discovery.images) = 3
    /\ discovery.images[1] = ImageSummary("python")
    /\ discovery.images[2] = ImageSummary("no label")
    /\ discovery.images[3] = ImageSummary("python untagged")
    /\ registry["python"].Image = "sha256:2"

\* C37: the catalog never changes; list_runners returns one entry for every
\* language of the catalog, with the catalog's image reference, and none for
\* any other language; run_code answers unsupported-language exactly for the
\* languages outside the catalog and hands the catalog's image reference to
\* the Executor.
C37_CatalogConsistent ==
    /\ [][registry' = registry]_vars
    /\ [](rpc.payload = "runners" =>
            \A l \in {"python", "typescript", "cobol", ""} :
               LET hits == {i \in 1..Len(rpc.tools.languages) :
                               rpc.tools.languages[i].Language = l}
               IN  IF l \in DOMAIN registry
                   THEN /\ Cardinality(hits) = 1
                        /\ \A i \in hits : rpc.tools.languages[i].Image = registry[l].Image
                   ELSE hits = {})
    /\ [](rpc.stderr.notice = "unsupported" => request.args.language \notin DOMAIN registry)
    /\ [](call.reached =>
            /\ request.args.language \in DOMAIN registry
            /\ call.imageName = registry[request.args.language].Image)

C37_Witness ==
    /\ rpc.payload = "runners"
    /\ Len(rpc.tools.languages) = 2
    /\ rpc.tools.languages[1].Language = "typescript"
    /\ rpc.tools.languages[1].Image = "img-ts:1"

----------------------------------------------------------------------------
(* Claims about concurrent calls of EnsureSandboxDir *)

\* C32: when two concurrent EnsureSandboxDir calls for one conversation have
\* returned, both returned nil and the same hashed id, which names a
\* directory; at every moment the entries that were there before are as they
\* were, and at most that one directory has been added under the sandbox root.
C32_ConcurrentEnsureSafe ==
    /\ \A q \in DOMAIN ensure.before : q \in DOMAIN fs /\ fs[q] = ensure.before[q]
    /\ DOMAIN fs \ DOMAIN ensure.before \subseteq {GetSandboxDir(ensure.conv)}
    /\ (ensure.pc = <<"done", "done">>) =>
          /\ ensure.ret[1] = [err |-> "nil", hashedDir |-> hashConversationID(ensure.conv)]
          /\ ensure.ret[2] = ensure.ret[1]
          /\ Stat(fs, Join(<<SandboxRoot, ensure.ret[1].hashedDir>>)) = "dir"

C32_Witness ==
    /\ ensure.pc = <<"done", "done">>
    /\ ensure.saw = <<"ENOENT", "ENOENT">>
    /\ ensure.ret[1].err = "nil"
    /\ ensure.ret[2].err = "nil"

====
